---- MODULE Spec2Model ----
(***************************************************************************)
(* A model of rudocx: the relationship registry (rels/mod.rs), the leaf    *)
(* value type HexColor (elements/common/color.rs), the document model      *)
(* (elements/*.rs), the streaming decoder (xml/read.rs) and the encoder    *)
(* (xml/write.rs).                                                         *)
(*                                                                         *)
(* Rust strings whose characters the code inspects (relationship ids,      *)
(* colour codes) are sequences of one-character strings.  A u32 is a pair  *)
(* <<hi, lo>> of 16-bit limbs, so that the whole 32-bit range, its largest *)
(* value included, is representable.                                       *)
(***************************************************************************)
EXTENDS Integers, Sequences, FiniteSets, TLC

VARIABLES
    regs,      \* the RelationshipManager instances: id -> [counter, links]
    last,      \* the last registry call: [op, reg, id, target, ret]
    pre,       \* regs as it was before the last registry call
    last2,     \* the registry call before the last one
    pre2,      \* regs as it was before that call
    gens,      \* per registry: the generate_rid calls since new(), <<[target, ret]>>
    pure,      \* per registry: only generate_rid was called on it since new()
    ncalls,    \* number of registry calls made
    overflow_checks, \* the build panics on integer overflow (debug) or wraps (release)
    hex,       \* a HexColor instance: [value]
    hexlast,   \* the last HexColor call: [op, arg, ret, before]
    built,     \* the calls that built the document: per paragraph its properties and children
    doc,       \* the Document those calls built
    via,       \* the entry point used on it: "generate" + parse, or "save" + load
    phase,     \* "built", "text", "archive", "saved", "parsing" or "done"
    package,   \* the file at the path given to save and load
    xml,       \* the XML text given to parse, as its sequence of markup and text tokens
    pos,       \* the reader's position in xml
    current_data, \* the decoder's CurrentData
    result,    \* what parse returned: [ok, document, err]
    ind,       \* a ParagraphIndentation instance
    indlast,   \* the last ParagraphIndentation call: [op, ret]
    system_fonts, \* what check_font reads: whether HOME is set, and the font files
                  \* (*.ttf, *.otf) in the system's font directories
    fonts,     \* a FontSet instance
    fontlast,  \* the last FontSet call: [op, type, arg, ret]
    shared,    \* a RelationshipManager several callers have access to
    borrow,    \* the caller that holds the `&mut` borrow of it, or 0
    threads,   \* per caller: [pc, target, rid], pc the line of generate_rid it is at
    returned,  \* the generate_rid calls on it that have returned: <<[caller, target, ret]>>
    wire       \* the last conversion of an enum: [op, enum, variant, text, of]

vars == <<regs, last, pre, last2, pre2, gens, pure, ncalls, overflow_checks, hex, hexlast,
          built, doc, via, phase, package, xml, pos, current_data, result,
          ind, indlast, system_fonts, fonts, fontlast, shared, borrow, threads, returned,
          wire>>
codecVars == <<built, doc, via, phase, package, xml, pos, current_data, result>>
relsVars == <<regs, last, pre, last2, pre2, gens, pure, ncalls, overflow_checks>>
hexVars == <<hex, hexlast>>
indVars == <<ind, indlast>>
fontVars == <<system_fonts, fonts, fontlast>>
concVars == <<shared, borrow, threads, returned>>
wireVars == <<wire>>

\* what the actions of one part of the model leave unchanged
exceptRels == <<hexVars, indVars, fontVars, concVars, codecVars, wireVars>>
exceptHex == <<relsVars, indVars, fontVars, concVars, codecVars, wireVars>>
exceptInd == <<relsVars, hexVars, fontVars, concVars, codecVars, wireVars>>
exceptFont == <<relsVars, hexVars, indVars, concVars, codecVars, wireVars>>
exceptConc == <<relsVars, hexVars, indVars, fontVars, codecVars, wireVars>>
exceptCodec == <<relsVars, hexVars, indVars, fontVars, concVars, wireVars>>
exceptWire == <<relsVars, hexVars, indVars, fontVars, concVars, codecVars>>

\* Option<T>: None is the empty sequence and Some(x) the one-element sequence
None == <<>>
Some(x) == <<x>>
IsSome(o) == o # <<>>
Unwrap(o) == o[1]

(***************************************************************************)
(* u32 arithmetic on limbs.                                                *)
(***************************************************************************)
Limb == 2 ^ 16

U32Zero == <<0, 0>>
U32MAX == <<Limb - 1, Limb - 1>>

U32Lt(a, b) == a[1] < b[1] \/ (a[1] = b[1] /\ a[2] < b[2])

\* u32::max
U32MaxOf(a, b) == IF U32Lt(a, b) THEN b ELSE a

\* n + 1 where it does not overflow
U32Succ(n) == IF n[2] < Limb - 1 THEN <<n[1], n[2] + 1>> ELSE <<n[1] + 1, 0>>

DigitChars == <<"0", "1", "2", "3", "4", "5", "6", "7", "8", "9">>

DigitSet == {DigitChars[i] : i \in 1..Len(DigitChars)}

DigitVal(c) == (CHOOSE i \in 1..Len(DigitChars) : DigitChars[i] = c) - 1

\* <u32 as Display>::fmt: the decimal digits, no sign, no leading zeros
RECURSIVE U32Digits(_)
U32Digits(n) ==
    LET t == (n[1] % 10) * Limb + n[2]
        q == <<n[1] \div 10, t \div 10>>
        d == DigitChars[(t % 10) + 1]
    IN  IF q = U32Zero THEN <<d>> ELSE Append(U32Digits(q), d)

\* <u32 as FromStr>::from_str: an optional leading '+', then one or more decimal
\* digits whose value fits 32 bits; anything else is an Err (None here)
RECURSIVE ParseDigits(_, _)
ParseDigits(s, acc) ==
    IF s = <<>> THEN Some(acc)
    ELSE IF Head(s) \notin DigitSet THEN None
    ELSE LET t  == acc[2] * 10 + DigitVal(Head(s))
             hi == acc[1] * 10 + (t \div Limb)
         IN  IF hi >= Limb THEN None
             ELSE ParseDigits(Tail(s), <<hi, t % Limb>>)

ParseU32(s) ==
    IF s = <<>> THEN None
    ELSE IF Head(s) = "+"
         THEN (IF Tail(s) = <<>> THEN None ELSE ParseDigits(Tail(s), U32Zero))
         ELSE ParseDigits(s, U32Zero)

RIdPrefix == <<"r", "I", "d">>

\* str::strip_prefix("rId")
StripPrefix(id) ==
    IF Len(id) >= Len(RIdPrefix) /\ SubSeq(id, 1, Len(RIdPrefix)) = RIdPrefix
    THEN Some(SubSeq(id, Len(RIdPrefix) + 1, Len(id)))
    ELSE None

\* format!("rId{}", counter)
FormatRid(counter) == RIdPrefix \o U32Digits(counter)

\* HashMap::insert
MapInsert(m, k, v) == [x \in DOMAIN m \cup {k} |-> IF x = k THEN v ELSE m[x]]

EmptyMap == [x \in {} |-> <<>>]

(***************************************************************************)
(* RelationshipManager                                                     *)
(***************************************************************************)
RelationshipManager_new == [counter |-> U32Zero, links |-> EmptyMap]

\* the call panicked and returned nothing
Panic == <<"panic">>

\* `self.counter += 1` on a u32: where the sum does not fit, a build with overflow
\* checks (debug) panics and a build without them (release) wraps to 0
CounterIncrement(counter, checks) ==
    IF counter # U32MAX THEN U32Succ(counter)
    ELSE IF checks THEN Panic ELSE U32Zero

\* generate_rid with the id formatted before the counter is incremented
generate_rid_FormatFirst(rm, target, checks) ==
    LET c == CounterIncrement(rm.counter, checks)
    IN  IF c = Panic THEN [rm |-> rm, ret |-> Panic]
        ELSE LET rid == FormatRid(rm.counter)
             IN  [rm  |-> [counter |-> c, links |-> MapInsert(rm.links, rid, target)],
                  ret |-> rid]

\* RelationshipManager::generate_rid: [rm |-> the registry after, ret |-> the id]
generate_rid(rm, target, checks) ==
    LET c == CounterIncrement(rm.counter, checks)
    IN  IF c = Panic THEN [rm |-> rm, ret |-> Panic]
        ELSE LET rid == FormatRid(c)
             IN  [rm  |-> [counter |-> c, links |-> MapInsert(rm.links, rid, target)],
                  ret |-> rid]

\* add_relationship counting every added id, whatever its form
add_relationship_CountAll(rm, id, target) ==
    LET num_str == StripPrefix(id)
        num == IF num_str = None THEN None ELSE ParseU32(Unwrap(num_str))
        c == IF num = None
             THEN (IF rm.counter = U32MAX THEN rm.counter ELSE U32Succ(rm.counter))
             ELSE U32MaxOf(rm.counter, Unwrap(num))
    IN  [counter |-> c, links |-> MapInsert(rm.links, id, target)]

\* RelationshipManager::add_relationship
add_relationship(rm, id, target) ==
    LET num_str == StripPrefix(id)
        num == IF num_str = None THEN None ELSE ParseU32(Unwrap(num_str))
        c == IF num = None THEN rm.counter ELSE U32MaxOf(rm.counter, Unwrap(num))
    IN  [counter |-> c, links |-> MapInsert(rm.links, id, target)]

\* RelationshipManager::clear
clear(rm) == [counter |-> U32Zero, links |-> EmptyMap]

(***************************************************************************)
(* The registry's callers.                                                 *)
(***************************************************************************)
MaxCalls == 3

RegIds == {1, 2}

Targets == {<<"h", "t", "t", "p", "s", ":", "/", "/", "a">>, <<"h", "t", "t", "p", "s", ":", "/", "/", "b">>}

IdInputs ==
    { RIdPrefix \o <<"0">>,
      RIdPrefix \o <<"2">>,
      RIdPrefix \o <<"4", "2", "9", "4", "9", "6", "7", "2", "9", "5">>,
      RIdPrefix \o <<"4", "2", "9", "4", "9", "6", "7", "2", "9", "6">>,
      <<"c", "u", "s", "t", "o", "m", "I", "d">> }

NoCall == [op |-> "none", reg |-> 0, id |-> <<>>, target |-> <<>>, ret |-> <<>>]

RegistriesNew ==
    /\ regs = [r \in RegIds |-> RelationshipManager_new]
    /\ last = NoCall
    /\ pre = regs
    /\ last2 = NoCall
    /\ pre2 = regs
    /\ gens = [r \in RegIds |-> <<>>]
    /\ pure = [r \in RegIds |-> TRUE]
    /\ ncalls = 0

\* fresh registries, in a build with or without overflow checks
RelsInit == RegistriesNew /\ overflow_checks \in BOOLEAN

\* fresh registries no caller uses on its own; the documents of the model take
\* only a few ids from a registry, so that the build's overflow behaviour never
\* shows and one build stands for both
RelsIdle == RegistriesNew /\ overflow_checks = FALSE

\* generate_rid on one process-wide counter shared by every registry
GenerateRid_SharedCounter(r, target) ==
    LET res == generate_rid(regs[r], target, overflow_checks)
    IN  /\ ncalls < MaxCalls
        /\ regs' = [x \in RegIds |->
                      IF x = r THEN res.rm
                      ELSE [regs[x] EXCEPT !.counter = res.rm.counter]]
        /\ last' = [op |-> "generate_rid", reg |-> r, id |-> <<>>,
                    target |-> target, ret |-> res.ret]
        /\ pre' = regs
        /\ last2' = last
        /\ pre2' = pre
        /\ gens' = [gens EXCEPT ![r] = Append(@, [target |-> target, ret |-> res.ret])]
        /\ pure' = pure
        /\ ncalls' = ncalls + 1
        /\ UNCHANGED <<overflow_checks, exceptRels>>

\* a caller runs rm.generate_rid(target) on registry r
GenerateRid(r, target) ==
    LET res == generate_rid(regs[r], target, overflow_checks)
    IN  /\ ncalls < MaxCalls
        /\ regs' = [regs EXCEPT ![r] = res.rm]
        /\ last' = [op |-> "generate_rid", reg |-> r, id |-> <<>>,
                    target |-> target, ret |-> res.ret]
        /\ pre' = regs
        /\ last2' = last
        /\ pre2' = pre
        /\ gens' = [gens EXCEPT ![r] = Append(@, [target |-> target, ret |-> res.ret])]
        /\ pure' = pure
        /\ ncalls' = ncalls + 1
        /\ UNCHANGED <<overflow_checks, exceptRels>>

\* Hyperlink::new, new_with_text, new_with_runs: each takes its id from
\* relationship_manager.generate_rid(target)
HyperlinkNew(r, target) ==
    LET res == generate_rid(regs[r], target, overflow_checks)
    IN  /\ ncalls < MaxCalls
        /\ regs' = [regs EXCEPT ![r] = res.rm]
        /\ last' = [op |-> "Hyperlink::new", reg |-> r, id |-> <<>>,
                    target |-> target, ret |-> res.ret]
        /\ pre' = regs
        /\ last2' = last
        /\ pre2' = pre
        /\ gens' = [gens EXCEPT ![r] = Append(@, [target |-> target, ret |-> res.ret])]
        /\ pure' = pure
        /\ ncalls' = ncalls + 1
        /\ UNCHANGED <<overflow_checks, exceptRels>>

\* a caller runs rm.add_relationship(id, target) on registry r
AddRelationship(r, id, target) ==
    /\ ncalls < MaxCalls
    /\ regs' = [regs EXCEPT ![r] = add_relationship(@, id, target)]
    /\ last' = [op |-> "add_relationship", reg |-> r, id |-> id,
                target |-> target, ret |-> <<>>]
    /\ pre' = regs
    /\ last2' = last
    /\ pre2' = pre
    /\ gens' = gens
    /\ pure' = [pure EXCEPT ![r] = FALSE]
    /\ ncalls' = ncalls + 1
    /\ UNCHANGED <<overflow_checks, exceptRels>>

\* a caller runs rm.clear() on registry r
Clear(r) ==
    /\ ncalls < MaxCalls
    /\ regs' = [regs EXCEPT ![r] = clear(@)]
    /\ last' = [op |-> "clear", reg |-> r, id |-> <<>>, target |-> <<>>, ret |-> <<>>]
    /\ pre' = regs
    /\ last2' = last
    /\ pre2' = pre
    /\ gens' = [gens EXCEPT ![r] = <<>>]
    /\ pure' = [pure EXCEPT ![r] = TRUE]
    /\ ncalls' = ncalls + 1
    /\ UNCHANGED <<overflow_checks, exceptRels>>

(***************************************************************************)
(* Callers that share one registry.  generate_rid takes `&mut self`: a     *)
(* caller runs it only while it holds the exclusive borrow of the          *)
(* registry, from the call to the return.  The three statements of its     *)
(* body are three steps.                                                   *)
(***************************************************************************)
Callers == {1, 2, 3}

Idle == [pc |-> "idle", target |-> <<>>, rid |-> <<>>]

\* every caller may take the registry, borrowed or not
Exclusive_Unchecked(c) == TRUE

\* `&mut self`: the caller can take the borrow only when nobody holds it
Exclusive(c) == borrow = 0

ConcInit ==
    /\ shared = RelationshipManager_new
    /\ borrow = 0
    /\ threads = [c \in Callers |-> Idle]
    /\ returned = <<>>

\* no registry is shared
ConcIdle == ConcInit

\* caller c calls shared.generate_rid(target)
CallGenerateRid(c, target) ==
    /\ threads[c].pc = "idle"
    /\ Len(returned) + Cardinality({d \in Callers : threads[d].pc # "idle"}) < MaxCalls
    /\ Exclusive(c)
    /\ borrow' = c
    /\ threads' = [threads EXCEPT ![c] = [pc |-> "counter", target |-> target, rid |-> <<>>]]
    /\ UNCHANGED <<shared, returned, exceptConc>>

\* `self.counter += 1;`
StepCounter(c) ==
    /\ threads[c].pc = "counter"
    /\ LET n == CounterIncrement(shared.counter, overflow_checks)
       IN  IF n = Panic
           THEN /\ threads' = [threads EXCEPT ![c] = Idle]
                /\ borrow' = 0
                /\ returned' = Append(returned, [caller |-> c, target |-> threads[c].target,
                                                 ret |-> Panic])
                /\ UNCHANGED shared
           ELSE /\ shared' = [shared EXCEPT !.counter = n]
                /\ threads' = [threads EXCEPT ![c].pc = "format"]
                /\ UNCHANGED <<borrow, returned>>
    /\ UNCHANGED exceptConc

\* `let rid = format!("rId{}", self.counter);`
StepFormat(c) ==
    /\ threads[c].pc = "format"
    /\ threads' = [threads EXCEPT ![c].pc = "insert", ![c].rid = FormatRid(shared.counter)]
    /\ UNCHANGED <<shared, borrow, returned, exceptConc>>

\* `self.links.insert(rid.clone(), target.to_string()); rid`
StepInsert(c) ==
    /\ threads[c].pc = "insert"
    /\ shared' = [shared EXCEPT !.links = MapInsert(@, threads[c].rid, threads[c].target)]
    /\ returned' = Append(returned, [caller |-> c, target |-> threads[c].target,
                                     ret |-> threads[c].rid])
    /\ threads' = [threads EXCEPT ![c] = Idle]
    /\ borrow' = 0
    /\ UNCHANGED exceptConc

(***************************************************************************)
(* HexColor                                                                *)
(***************************************************************************)
HexDigitSet ==
    DigitSet \cup {"a", "b", "c", "d", "e", "f", "A", "B", "C", "D", "E", "F"}

\* char::is_ascii_hexdigit
is_ascii_hexdigit(c) == c \in HexDigitSet

\* `!n` on a usize (64 bits, as limbs, most significant first): the bitwise
\* complement, for a length n below one limb
UsizeNot(n) == [i \in 1..4 |-> IF i = 4 THEN Limb - 1 - n ELSE Limb - 1]

UsizeOf(n) == [i \in 1..4 |-> IF i = 4 THEN n ELSE 0]

FallbackHex == <<"F", "F", "F", "F", "F", "F">>

InvalidHex == "InvalidHex"

\* check_hex: `!value.len() == 6` compares the complement of the length with 6
check_hex(value) ==
    IF UsizeNot(Len(value)) = UsizeOf(6) THEN InvalidHex
    ELSE IF ~(\A i \in 1..Len(value) : is_ascii_hexdigit(value[i])) THEN InvalidHex
    ELSE "Ok"

\* HexColor::new
HexColor_new(color) ==
    IF check_hex(color) = "Ok" THEN [value |-> color] ELSE [value |-> FallbackHex]

\* HexColor::default
HexColor_default == [value |-> FallbackHex]

\* HexColor::change_value: [hex |-> the colour after, ret |-> Ok or the error]
HexColor_change_value(h, value) ==
    IF check_hex(value) = "Ok"
    THEN [hex |-> [value |-> value], ret |-> "Ok"]
    ELSE [hex |-> h, ret |-> InvalidHex]

ColorInputs ==
    { <<"F", "F", "0", "0", "F", "F">>,
      <<"0", "0", "a", "b", "c", "d">>,
      <<"1", "2", "3", "4", "5", "6">>,
      <<"e", "E", "f", "9", "8", "7">>,
      <<"z", "z", "z">>,
      <<"F", "F", "F">>,
      <<"F", "F", "0", "0", "F", "F", "0">>,
      <<"G", "G", "0", "0", "F", "F">>,
      <<"#", "F", "F", "0", "0", "F">>,
      <<"F", "F", "0", "0", "F", " ">>,
      <<>> }

HexInit ==
    /\ hex = HexColor_default
    /\ hexlast = [op |-> "default", arg |-> <<>>, ret |-> "Ok", before |-> <<>>]

\* a caller builds a colour with HexColor::new(color)
HexNew(color) ==
    /\ hex' = HexColor_new(color)
    /\ hexlast' = [op |-> "new", arg |-> color, ret |-> "Ok", before |-> hex.value]
    /\ UNCHANGED exceptHex

\* a caller runs color.change_value(value)
HexChangeValue(value) ==
    LET res == HexColor_change_value(hex, value)
    IN  /\ hex' = res.hex
        /\ hexlast' = [op |-> "change_value", arg |-> value, ret |-> res.ret,
                       before |-> hex.value]
        /\ UNCHANGED exceptHex

(***************************************************************************)
(* ParagraphIndentation (elements/paragraph_properties/indentation.rs)     *)
(***************************************************************************)
MutuallyExclusive == "MutuallyExclusive"

\* #[derive(Default)]: every field None
ParagraphIndentation_default ==
    [left |-> None, left_chars |-> None, right |-> None, right_chars |-> None,
     first_line |-> None, first_line_chars |-> None,
     hanging |-> None, hanging_chars |-> None]

\* ParagraphIndentation::new: [ok, value, err]
ParagraphIndentation_new(left, left_chars, right, right_chars, first_line, first_line_chars, hanging, hanging_chars) ==
    IF IsSome(hanging) /\ IsSome(first_line)
    THEN [ok |-> FALSE, value |-> None, err |-> MutuallyExclusive]
    ELSE [ok |-> TRUE,
          value |-> Some([left |-> left, left_chars |-> left_chars,
                          right |-> right, right_chars |-> right_chars,
                          first_line |-> first_line,
                          first_line_chars |-> first_line_chars,
                          hanging |-> hanging, hanging_chars |-> hanging_chars]),
          err |-> "-"]

\* the mutators: each assigns its field and returns ()
change_left(self, left) == [self EXCEPT !.left = left]
change_left_chars(self, left_chars) == [self EXCEPT !.left_chars = left_chars]
change_right(self, right) == [self EXCEPT !.right = right]
change_right_chars(self, right_chars) == [self EXCEPT !.right_chars = right_chars]
change_first_line(self, first_line) == [self EXCEPT !.first_line = first_line]
change_first_line_chars(self, first_line_chars) ==
    [self EXCEPT !.first_line_chars = first_line_chars]
change_hanging(self, hanging) == [self EXCEPT !.hanging = hanging]
change_hanging_chars(self, hanging_chars) ==
    [self EXCEPT !.hanging_chars = hanging_chars]

\* Option<i32> arguments
I32Inputs == {None, Some(720)}

IndInit ==
    /\ ind = ParagraphIndentation_default
    /\ indlast = [op |-> "default", ret |-> "Ok"]

\* no ParagraphIndentation is in use
IndIdle == IndInit

\* a caller builds an indentation with ParagraphIndentation::new and keeps it
\* when the constructor succeeds
IndNew(l, lc, r, rc, f, fc, h, hc) ==
    LET res == ParagraphIndentation_new(l, lc, r, rc, f, fc, h, hc)
    IN  /\ ind' = IF res.ok THEN Unwrap(res.value) ELSE ind
        /\ indlast' = [op |-> "new", ret |-> IF res.ok THEN "Ok" ELSE res.err]
        /\ UNCHANGED exceptInd

IndChangeLeft(v) ==
    /\ ind' = change_left(ind, v)
    /\ indlast' = [op |-> "change_left", ret |-> "Ok"]
    /\ UNCHANGED exceptInd

IndChangeLeftChars(v) ==
    /\ ind' = change_left_chars(ind, v)
    /\ indlast' = [op |-> "change_left_chars", ret |-> "Ok"]
    /\ UNCHANGED exceptInd

IndChangeRight(v) ==
    /\ ind' = change_right(ind, v)
    /\ indlast' = [op |-> "change_right", ret |-> "Ok"]
    /\ UNCHANGED exceptInd

IndChangeRightChars(v) ==
    /\ ind' = change_right_chars(ind, v)
    /\ indlast' = [op |-> "change_right_chars", ret |-> "Ok"]
    /\ UNCHANGED exceptInd

IndChangeFirstLine(v) ==
    /\ ind' = change_first_line(ind, v)
    /\ indlast' = [op |-> "change_first_line", ret |-> "Ok"]
    /\ UNCHANGED exceptInd

IndChangeFirstLineChars(v) ==
    /\ ind' = change_first_line_chars(ind, v)
    /\ indlast' = [op |-> "change_first_line_chars", ret |-> "Ok"]
    /\ UNCHANGED exceptInd

IndChangeHanging(v) ==
    /\ ind' = change_hanging(ind, v)
    /\ indlast' = [op |-> "change_hanging", ret |-> "Ok"]
    /\ UNCHANGED exceptInd

IndChangeHangingChars(v) ==
    /\ ind' = change_hanging_chars(ind, v)
    /\ indlast' = [op |-> "change_hanging_chars", ret |-> "Ok"]
    /\ UNCHANGED exceptInd

(***************************************************************************)
(* FontSet (elements/run_properties/font.rs)                               *)
(*                                                                         *)
(* A Result is <<"Ok", v>> or <<"Err", e>> with e the error variant and    *)
(* its argument.                                                           *)
(***************************************************************************)
FontType ==
    {"Ascii", "HiAnsi", "EastAsia", "Cs", "AsciiTheme", "HiAnsiTheme",
     "EastAsiaTheme", "CsTheme", "Default"}

\* FontSet::default
FontSet_default ==
    [ascii |-> None, hi_ansi |-> None, east_asia |-> None, cs |-> None,
     ascii_theme |-> None, hi_ansi_theme |-> None, east_asia_theme |-> None,
     cs_theme |-> None, hint |-> "Default"]

\* the field each arm of `match r#type` in FontSet::new and of
\* `match self.hint` in get_hint names
FontSlot(type) ==
    CASE type = "Ascii" -> "ascii"
      [] type = "HiAnsi" -> "hi_ansi"
      [] type = "EastAsia" -> "east_asia"
      [] type = "Cs" -> "cs"
      [] type = "AsciiTheme" -> "ascii_theme"
      [] type = "HiAnsiTheme" -> "hi_ansi_theme"
      [] type = "EastAsiaTheme" -> "east_asia_theme"
      [] type = "CsTheme" -> "cs_theme"

\* the field each arm of `match r#type` in change_value assigns: the CsTheme
\* arm assigns self.cs
ChangeSlot(type) == IF type = "CsTheme" THEN "cs" ELSE FontSlot(type)

\* check_font and its check_installed: `std::env::var("HOME").unwrap()` is
\* evaluated before a directory is listed and panics where HOME is not set
check_font(font, env) ==
    IF ~env.HOME THEN Panic
    ELSE IF env.files = {} THEN <<"Err", <<"SystemFontsNotFound">>>>
    ELSE IF font \in env.files THEN <<"Ok", <<>>>>
    ELSE <<"Err", <<"FontNotInstalled", font>>>>

\* FontSet::new
FontSet_new(value, type, env) ==
    IF check_font(value, env)[1] # "Ok" THEN check_font(value, env)
    ELSE IF type = "Default" THEN <<"Err", <<"PropertyNotSet">>>>
    ELSE <<"Ok", [FontSet_default EXCEPT ![FontSlot(type)] = Some(value)]>>

\* a get_hint that reads self.cs in its CsTheme arm
get_hint_CsSlot(self) ==
    IF self.hint = "Default" THEN <<"Err", <<"Undefined">>>>
    ELSE LET hint == self[ChangeSlot(self.hint)]
         IN  IF IsSome(hint) THEN <<"Ok", Unwrap(hint)>>
             ELSE <<"Err", <<"HintPointsNone", self.hint>>>>

\* FontSet::get_hint
get_hint(self) ==
    IF self.hint = "Default" THEN <<"Err", <<"Undefined">>>>
    ELSE LET hint == self[FontSlot(self.hint)]
         IN  IF IsSome(hint) THEN <<"Ok", Unwrap(hint)>>
             ELSE <<"Err", <<"HintPointsNone", self.hint>>>>

\* FontSet::value
FontSet_value(self) ==
    IF FontSet_default = self THEN <<"Err", <<"EmptyFontSet">>>> ELSE get_hint(self)

\* FontSet::get_hint_value
get_hint_value(self) == self.hint

\* FontSet::set_hint_value: [self |-> the set after, ret]
set_hint_value(self, value) ==
    [self |-> [self EXCEPT !.hint = value], ret |-> <<"Ok", <<>>>>]

\* FontSet::change_value: [self |-> the set after, ret]
FontSet_change_value(self, value, type, env) ==
    IF type = "Default" THEN [self |-> self, ret |-> <<"Err", <<"Undefined">>>>]
    ELSE IF self # FontSet_default
    THEN IF IsSome(value) /\ check_font(Unwrap(value), env)[1] # "Ok"
         THEN [self |-> self, ret |-> check_font(Unwrap(value), env)]
         ELSE [self |-> [self EXCEPT ![ChangeSlot(type)] = value],
               ret |-> <<"Ok", <<>>>>]
    ELSE [self |-> self, ret |-> <<"Err", <<"PropertyNotSet">>>>]

\* font names a caller passes: the name of an installed font file and a
\* family name that is no file name
FontNames == {<<"A", "r", "i", "a", "l", ".", "t", "t", "f">>, <<"A", "r", "i", "a", "l">>}

\* the environments of check_font: HOME not set, and HOME set with font
\* directories that hold no font file or the one file Arial.ttf
SystemFontInputs ==
    {[HOME |-> FALSE, files |-> {}],
     [HOME |-> TRUE, files |-> {}],
     [HOME |-> TRUE, files |-> {<<"A", "r", "i", "a", "l", ".", "t", "t", "f">>}]}

FontInit ==
    /\ system_fonts \in SystemFontInputs
    /\ fonts = FontSet_default
    /\ fontlast = [op |-> "default", type |-> "Default", arg |-> None, ret |-> <<"Ok", <<>>>>]

\* no FontSet is in use
FontIdle ==
    /\ system_fonts = [HOME |-> TRUE, files |-> {}]
    /\ fonts = FontSet_default
    /\ fontlast = [op |-> "default", type |-> "Default", arg |-> None, ret |-> <<"Ok", <<>>>>]

\* a caller builds a set with FontSet::new and keeps it when that succeeds
FontNew(value, type) ==
    LET res == FontSet_new(value, type, system_fonts)
    IN  /\ fonts' = IF res[1] = "Ok" THEN res[2] ELSE fonts
        /\ fontlast' = [op |-> "new", type |-> type, arg |-> Some(value),
                        ret |-> IF res[1] = "Ok" THEN <<"Ok", <<>>>> ELSE res]
        /\ UNCHANGED <<system_fonts, exceptFont>>

FontValue ==
    /\ fontlast' = [op |-> "value", type |-> fonts.hint, arg |-> None,
                    ret |-> FontSet_value(fonts)]
    /\ UNCHANGED <<system_fonts, fonts, exceptFont>>

FontGetHint ==
    /\ fontlast' = [op |-> "get_hint", type |-> fonts.hint, arg |-> None,
                    ret |-> get_hint(fonts)]
    /\ UNCHANGED <<system_fonts, fonts, exceptFont>>

FontSetHintValue(value) ==
    LET res == set_hint_value(fonts, value)
    IN  /\ fonts' = res.self
        /\ fontlast' = [op |-> "set_hint_value", type |-> value, arg |-> None,
                        ret |-> res.ret]
        /\ UNCHANGED <<system_fonts, exceptFont>>

FontChangeValue(value, type) ==
    LET res == FontSet_change_value(fonts, value, type, system_fonts)
    IN  /\ fonts' = res.self
        /\ fontlast' = [op |-> "change_value", type |-> type, arg |-> value,
                        ret |-> res.ret]
        /\ UNCHANGED <<system_fonts, exceptFont>>

(***************************************************************************)
(* The enums with a wire string (elements/common, run_properties,          *)
(* paragraph_properties)                                                   *)
(***************************************************************************)
\* enum HighlightPalette with the arms of its From, in order (`other` is the `_` arm),
\* and the arms of its Display
HighlightPalette ==
    [name |-> "HighlightPalette",
     variants |->
         {"Yellow", "DarkYellow", "Green", "DarkGreen", "Cyan", "DarkCyan", "Magenta",
         "DarkMagenta", "Blue", "DarkBlue", "Red", "DarkRed", "Black", "White"},
     from |->
         << <<<<"y", "e", "l", "l", "o", "w">>, "Yellow">>,
            <<<<"d", "a", "r", "k", "Y", "e", "l", "l", "o", "w">>, "DarkYellow">>,
            <<<<"g", "r", "e", "e", "n">>, "Green">>,
            <<<<"d", "a", "r", "k", "G", "r", "e", "e", "n">>, "DarkGreen">>,
            <<<<"c", "y", "a", "n">>, "Cyan">>,
            <<<<"d", "a", "r", "k", "C", "y", "a", "n">>, "DarkCyan">>,
            <<<<"m", "a", "g", "e", "n", "t", "a">>, "Magenta">>,
            <<<<"d", "a", "r", "k", "M", "a", "g", "e", "n", "t", "a">>, "DarkMagenta">>,
            <<<<"b", "l", "u", "e">>, "Blue">>,
            <<<<"d", "a", "r", "k", "B", "l", "u", "e">>, "DarkBlue">>,
            <<<<"r", "e", "d">>, "Red">>,
            <<<<"d", "a", "r", "k", "R", "e", "d">>, "DarkRed">>,
            <<<<"b", "l", "a", "c", "k">>, "Black">>,
            <<<<"w", "h", "i", "t", "e">>, "White">> >>,
     other |-> "White",
     fmt |->
         << <<"Yellow", <<"y", "e", "l", "l", "o", "w">>>>,
            <<"DarkYellow", <<"d", "a", "r", "k", "Y", "e", "l", "l", "o", "w">>>>,
            <<"Green", <<"g", "r", "e", "e", "n">>>>,
            <<"DarkGreen", <<"d", "a", "r", "k", "G", "r", "e", "e", "n">>>>,
            <<"Cyan", <<"c", "y", "a", "n">>>>,
            <<"DarkCyan", <<"d", "a", "r", "k", "C", "y", "a", "n">>>>,
            <<"Magenta", <<"m", "a", "g", "e", "n", "t", "a">>>>,
            <<"DarkMagenta", <<"d", "a", "r", "k", "M", "a", "g", "e", "n", "t", "a">>>>,
            <<"Blue", <<"b", "l", "u", "e">>>>,
            <<"DarkBlue", <<"d", "a", "r", "k", "B", "l", "u", "e">>>>,
            <<"Red", <<"r", "e", "d">>>>,
            <<"DarkRed", <<"d", "a", "r", "k", "R", "e", "d">>>>,
            <<"Black", <<"b", "l", "a", "c", "k">>>>,
            <<"White", <<"w", "h", "i", "t", "e">>>> >>]

\* enum StripePatternValues with the arms of its From, in order (`other` is the `_` arm),
\* and the arms of its Display
StripePatternValues ==
    [name |-> "StripePatternValues",
     variants |->
         {"Horizontal", "Vertical", "Diagonal", "ReverseDiagonal", "HorizontalCross",
         "DiagonalCross", "ThinHorzontal", "ThinVertical", "ThinDiagonal",
         "ThinReverseDiagonal", "ThinHorizontalCross", "ThinDiagCross", "SmallGrid",
         "LargeGrid", "DottedGrid", "Clear"},
     from |->
         << <<<<"h", "o", "r", "z", "S", "t", "r", "i", "p", "e">>, "Horizontal">>,
            <<<<"v", "e", "r", "t", "S", "t", "r", "i", "p", "e">>, "Vertical">>,
            <<<<"d", "i", "a", "g", "S", "t", "r", "i", "p", "e">>, "Diagonal">>,
            <<<<"r", "e", "v", "e", "r", "s", "e", "D", "i", "a", "g", "S", "t", "r", "i", "p", "e">>, "ReverseDiagonal">>,
            <<<<"h", "o", "r", "z", "C", "r", "o", "s", "s">>, "HorizontalCross">>,
            <<<<"d", "i", "a", "g", "C", "r", "o", "s", "s">>, "DiagonalCross">>,
            <<<<"t", "h", "i", "n", "H", "o", "r", "z", "S", "t", "r", "i", "p", "e">>, "ThinHorzontal">>,
            <<<<"t", "h", "i", "n", "V", "e", "r", "t", "S", "t", "r", "i", "p", "e">>, "ThinVertical">>,
            <<<<"t", "h", "i", "n", "D", "i", "a", "g", "S", "t", "r", "i", "p", "e">>, "ThinDiagonal">>,
            <<<<"t", "h", "i", "n", "R", "e", "v", "e", "r", "s", "e", "D", "i", "a", "g", "S", "t", "r", "i", "p", "e">>, "ThinReverseDiagonal">>,
            <<<<"t", "h", "i", "n", "H", "o", "r", "z", "C", "r", "o", "s", "s">>, "ThinHorizontalCross">>,
            <<<<"t", "h", "i", "n", "D", "i", "a", "g", "C", "r", "o", "s", "s">>, "ThinDiagCross">>,
            <<<<"s", "m", "G", "r", "i", "d">>, "SmallGrid">>,
            <<<<"l", "g", "G", "r", "i", "d">>, "LargeGrid">>,
            <<<<"d", "o", "t", "G", "r", "i", "d">>, "DottedGrid">>,
            <<<<"c", "l", "e", "a", "r">>, "Clear">> >>,
     other |-> "Clear",
     fmt |->
         << <<"Horizontal", <<"h", "o", "r", "z", "S", "t", "r", "i", "p", "e">>>>,
            <<"Vertical", <<"v", "e", "r", "t", "S", "t", "r", "i", "p", "e">>>>,
            <<"Diagonal", <<"d", "i", "a", "g", "S", "t", "r", "i", "p", "e">>>>,
            <<"ReverseDiagonal", <<"r", "e", "v", "e", "r", "s", "e", "D", "i", "a", "g", "S", "t", "r", "i", "p", "e">>>>,
            <<"HorizontalCross", <<"h", "o", "r", "z", "C", "r", "o", "s", "s", "S", "t", "r", "i", "p", "e">>>>,
            <<"DiagonalCross", <<"d", "i", "a", "g", "C", "r", "o", "s", "s", "S", "t", "r", "i", "p", "e">>>>,
            <<"ThinHorzontal", <<"t", "h", "i", "n", "H", "o", "r", "z", "o", "n", "t", "a", "l", "S", "t", "r", "i", "p", "e">>>>,
            <<"ThinVertical", <<"t", "h", "i", "n", "V", "e", "r", "t", "S", "t", "r", "i", "p", "e">>>>,
            <<"ThinDiagonal", <<"t", "h", "i", "n", "D", "i", "a", "g", "S", "t", "r", "i", "p", "e">>>>,
            <<"ThinReverseDiagonal", <<"t", "h", "i", "n", "R", "e", "v", "e", "r", "s", "e", "D", "i", "a", "g", "S", "t", "r", "i", "p", "e">>>>,
            <<"ThinHorizontalCross", <<"t", "h", "i", "n", "H", "o", "r", "z", "C", "r", "o", "s", "s", "S", "t", "r", "i", "p", "e">>>>,
            <<"ThinDiagCross", <<"t", "h", "i", "n", "D", "i", "a", "g", "C", "r", "o", "s", "s", "S", "t", "r", "i", "p", "e">>>>,
            <<"SmallGrid", <<"s", "m", "G", "r", "i", "d">>>>,
            <<"LargeGrid", <<"l", "g", "G", "r", "i", "d">>>>,
            <<"DottedGrid", <<"d", "o", "t", "G", "r", "i", "d">>>>,
            <<"Clear", <<"c", "l", "e", "a", "r">>>> >>]

\* enum FontType with the arms of its From, in order (`other` is the `_` arm),
\* and the arms of its Display
FontType_wire ==
    [name |-> "FontType",
     variants |->
         {"Ascii", "HiAnsi", "EastAsia", "Cs", "AsciiTheme", "HiAnsiTheme",
         "EastAsiaTheme", "CsTheme", "Default"},
     from |->
         << <<<<"a", "s", "c", "i", "i">>, "Ascii">>,
            <<<<"h", "A", "n", "s", "i">>, "HiAnsi">>,
            <<<<"e", "a", "s", "t", "A", "s", "i", "a">>, "EastAsia">>,
            <<<<"c", "s">>, "Cs">>,
            <<<<"a", "s", "c", "i", "i", "T", "h", "e", "m", "e">>, "AsciiTheme">>,
            <<<<"h", "i", "A", "n", "s", "i", "T", "h", "e", "m", "e">>, "HiAnsiTheme">>,
            <<<<"e", "a", "s", "t", "A", "s", "i", "a", "T", "h", "e", "m", "e">>, "EastAsiaTheme">>,
            <<<<"c", "s", "T", "h", "e", "m", "e">>, "CsTheme">>,
            <<<<"d", "e", "f", "a", "u", "l", "t">>, "Default">> >>,
     other |-> "Default",
     fmt |->
         << <<"Ascii", <<"a", "s", "c", "i", "i">>>>,
            <<"HiAnsi", <<"h", "A", "n", "s", "i">>>>,
            <<"EastAsia", <<"e", "a", "s", "t", "A", "s", "i", "a">>>>,
            <<"Cs", <<"c", "s">>>>,
            <<"AsciiTheme", <<"a", "s", "c", "i", "i", "T", "h", "e", "m", "e">>>>,
            <<"HiAnsiTheme", <<"h", "i", "A", "n", "s", "i", "T", "h", "e", "m", "e">>>>,
            <<"EastAsiaTheme", <<"e", "a", "s", "t", "A", "s", "i", "a", "T", "h", "e", "m", "e">>>>,
            <<"CsTheme", <<"c", "s", "T", "h", "e", "m", "e">>>>,
            <<"Default", <<"d", "e", "f", "a", "u", "l", "t">>>> >>]

\* enum UnderlineStyle with the arms of its From, in order (`other` is the `_` arm),
\* and the arms of its Display
UnderlineStyle ==
    [name |-> "UnderlineStyle",
     variants |->
         {"Single", "Words", "Double", "Thick", "Dotted", "DottedHeavy", "Dash",
         "DashedHeavy", "DashLong", "DashLongHeavy", "DotDash", "DashDotHeavy",
         "DotDotDash", "DashDotDotHeavy", "Wave", "WavyHeavy", "WavyDouble"},
     from |->
         << <<<<"s", "i", "n", "g", "l", "e">>, "Single">>,
            <<<<"w", "o", "r", "d", "s">>, "Words">>,
            <<<<"d", "o", "u", "b", "l", "e">>, "Double">>,
            <<<<"t", "h", "i", "c", "k">>, "Thick">>,
            <<<<"d", "o", "t", "t", "e", "d">>, "Dotted">>,
            <<<<"d", "o", "t", "t", "e", "d", "H", "e", "a", "v", "y">>, "DottedHeavy">>,
            <<<<"d", "a", "s", "h">>, "Dash">>,
            <<<<"d", "a", "s", "h", "e", "d", "H", "e", "a", "v", "y">>, "DashedHeavy">>,
            <<<<"d", "a", "s", "h", "L", "o", "n", "g">>, "DashLong">>,
            <<<<"d", "a", "s", "h", "L", "o", "n", "g", "H", "e", "a", "v", "y">>, "DashLongHeavy">>,
            <<<<"d", "o", "t", "D", "a", "s", "h">>, "DotDash">>,
            <<<<"d", "a", "s", "h", "D", "o", "t", "H", "e", "a", "v", "y">>, "DashDotHeavy">>,
            <<<<"d", "o", "t", "D", "o", "t", "D", "a", "s", "h">>, "DotDotDash">>,
            <<<<"d", "a", "s", "h", "D", "o", "t", "D", "o", "t", "H", "e", "a", "v", "y">>, "DashDotDotHeavy">>,
            <<<<"w", "a", "v", "e">>, "Wave">>,
            <<<<"w", "a", "v", "y", "H", "e", "a", "v", "y">>, "WavyHeavy">>,
            <<<<"w", "a", "v", "y", "D", "o", "u", "b", "l", "e">>, "WavyDouble">> >>,
     other |-> "Single",
     fmt |->
         << <<"Single", <<"s", "i", "n", "g", "l", "e">>>>,
            <<"Words", <<"w", "o", "r", "d", "s">>>>,
            <<"Double", <<"d", "o", "u", "b", "l", "e">>>>,
            <<"Thick", <<"t", "h", "i", "c", "k">>>>,
            <<"Dotted", <<"d", "o", "t", "t", "e", "d">>>>,
            <<"DottedHeavy", <<"d", "o", "t", "t", "e", "d", "H", "e", "a", "v", "y">>>>,
            <<"Dash", <<"d", "a", "s", "h">>>>,
            <<"DashedHeavy", <<"d", "a", "s", "h", "e", "d", "H", "e", "a", "v", "y">>>>,
            <<"DashLong", <<"d", "a", "s", "h", "L", "o", "n", "g">>>>,
            <<"DashLongHeavy", <<"d", "a", "s", "h", "L", "o", "n", "g", "H", "e", "a", "v", "y">>>>,
            <<"DotDash", <<"d", "o", "t", "D", "a", "s", "h">>>>,
            <<"DashDotHeavy", <<"d", "a", "s", "h", "D", "o", "t", "H", "e", "a", "v", "y">>>>,
            <<"DotDotDash", <<"d", "o", "t", "D", "o", "t", "D", "a", "s", "h">>>>,
            <<"DashDotDotHeavy", <<"d", "a", "s", "h", "D", "o", "t", "D", "o", "t", "H", "e", "a", "v", "y">>>>,
            <<"Wave", <<"w", "a", "v", "e">>>>,
            <<"WavyHeavy", <<"w", "a", "v", "y", "H", "e", "a", "v", "y">>>>,
            <<"WavyDouble", <<"w", "a", "v", "y", "D", "o", "u", "b", "l", "e">>>> >>]

\* enum AlignValues with the arms of its From, in order (`other` is the `_` arm),
\* and the arms of its Display
AlignValues ==
    [name |-> "AlignValues",
     variants |->
         {"Baseline", "Superscript", "Subscript"},
     from |->
         << <<<<"b", "a", "s", "e", "l", "i", "n", "e">>, "Baseline">>,
            <<<<"s", "u", "p", "e", "r", "s", "c", "r", "i", "p", "t">>, "Superscript">>,
            <<<<"s", "u", "b", "s", "c", "r", "i", "p", "t">>, "Subscript">> >>,
     other |-> "Baseline",
     fmt |->
         << <<"Baseline", <<"b", "a", "s", "e", "l", "i", "n", "e">>>>,
            <<"Subscript", <<"s", "u", "b", "s", "c", "r", "i", "p", "t">>>>,
            <<"Superscript", <<"s", "u", "p", "e", "r", "s", "c", "r", "i", "p", "t">>>> >>]

\* enum ParagraphBorderStyle with the arms of its From, in order (`other` is the `_` arm),
\* and the arms of its Display
ParagraphBorderStyle ==
    [name |-> "ParagraphBorderStyle",
     variants |->
         {"Single", "Double", "Dashed", "Nil"},
     from |->
         << <<<<"s", "i", "n", "g", "l", "e">>, "Single">>,
            <<<<"d", "o", "u", "b", "l", "e">>, "Double">>,
            <<<<"d", "a", "s", "h", "e", "d">>, "Dashed">>,
            <<<<"n", "i", "l">>, "Nil">> >>,
     other |-> "Nil",
     fmt |->
         << <<"Single", <<"s", "i", "n", "g", "l", "e">>>>,
            <<"Double", <<"d", "o", "u", "b", "l", "e">>>>,
            <<"Dashed", <<"d", "a", "s", "h", "e", "d">>>>,
            <<"Nil", <<"n", "i", "l">>>> >>]

\* enum ParagraphTabValues with the arms of its From, in order (`other` is the `_` arm),
\* and the arms of its Display
ParagraphTabValues ==
    [name |-> "ParagraphTabValues",
     variants |->
         {"Clear", "Left", "Center", "Right", "Decimal", "Bar", "Num"},
     from |->
         << <<<<"c", "l", "e", "a", "r">>, "Clear">>,
            <<<<"l", "e", "f", "t">>, "Left">>,
            <<<<"c", "e", "n", "t", "e", "r">>, "Center">>,
            <<<<"r", "i", "g", "h", "t">>, "Right">>,
            <<<<"d", "e", "c", "i", "m", "a", "l">>, "Decimal">>,
            <<<<"b", "a", "r">>, "Bar">>,
            <<<<"n", "u", "m">>, "Num">> >>,
     other |-> "Clear",
     fmt |->
         << <<"Clear", <<"c", "l", "e", "a", "r">>>>,
            <<"Left", <<"l", "e", "f", "t">>>>,
            <<"Center", <<"c", "e", "n", "t", "e", "r">>>>,
            <<"Right", <<"r", "i", "g", "h", "t">>>>,
            <<"Decimal", <<"d", "e", "c", "i", "m", "a", "l">>>>,
            <<"Bar", <<"b", "a", "r">>>>,
            <<"Num", <<"n", "u", "m">>>> >>]

\* enum ParagraphTabLeaders with the arms of its From, in order (`other` is the `_` arm),
\* and the arms of its Display
ParagraphTabLeaders ==
    [name |-> "ParagraphTabLeaders",
     variants |->
         {"None", "Dot", "Heavy", "Hyphen", "MiddleDot"},
     from |->
         << <<<<"n", "o", "n", "e">>, "None">>,
            <<<<"d", "o", "t">>, "Dot">>,
            <<<<"h", "e", "a", "v", "y">>, "Heavy">>,
            <<<<"h", "y", "p", "h", "e", "n">>, "Hyphen">>,
            <<<<"m", "i", "d", "d", "l", "e", "D", "o", "t">>, "MiddleDot">> >>,
     other |-> "None",
     fmt |->
         << <<"None", <<"n", "o", "n", "e">>>>,
            <<"Dot", <<"d", "o", "t">>>>,
            <<"Heavy", <<"h", "e", "a", "v", "y">>>>,
            <<"Hyphen", <<"h", "y", "p", "h", "e", "n">>>>,
            <<"MiddleDot", <<"m", "i", "d", "d", "l", "e", "D", "o", "t">>>> >>]

\* enum ParagraphTBoxTightWrapValues with the arms of its From, in order (`other` is the `_` arm),
\* and the arms of its Display
ParagraphTBoxTightWrapValues ==
    [name |-> "ParagraphTBoxTightWrapValues",
     variants |->
         {"AllLines", "FirstAndLastLine", "FirstLineOnly", "LastLineOnly", "None"},
     from |->
         << <<<<"a", "l", "l", "L", "i", "n", "e", "s">>, "AllLines">>,
            <<<<"f", "i", "r", "s", "t", "A", "n", "d", "L", "a", "s", "t", "L", "i", "n", "e">>, "FirstAndLastLine">>,
            <<<<"f", "i", "r", "s", "t", "L", "i", "n", "e", "O", "n", "l", "y">>, "FirstLineOnly">>,
            <<<<"l", "a", "s", "t", "L", "i", "n", "e", "O", "n", "l", "y">>, "LastLineOnly">>,
            <<<<"n", "o", "n", "e">>, "None">> >>,
     other |-> "None",
     fmt |->
         << <<"AllLines", <<"a", "l", "l", "L", "i", "n", "e", "s">>>>,
            <<"FirstAndLastLine", <<"f", "i", "r", "s", "t", "A", "n", "d", "L", "a", "s", "t", "L", "i", "n", "e">>>>,
            <<"FirstLineOnly", <<"f", "i", "r", "s", "t", "L", "i", "n", "e", "O", "n", "l", "y">>>>,
            <<"LastLineOnly", <<"l", "a", "s", "t", "L", "i", "n", "e", "O", "n", "l", "y">>>>,
            <<"None", <<"n", "o", "n", "e">>>> >>]

Enums ==
    {HighlightPalette, StripePatternValues, FontType_wire, UnderlineStyle, AlignValues,
     ParagraphBorderStyle, ParagraphTabValues, ParagraphTabLeaders,
     ParagraphTBoxTightWrapValues}

\* `v.to_string()`: the arm of Display for the variant
to_string(E, v) ==
    LET i == CHOOSE k \in 1..Len(E.fmt) : E.fmt[k][1] = v
    IN  E.fmt[i][2]

\* `E::from(s)`: the first arm of From whose string is s, else the `_` arm
from_string(E, s) ==
    LET arms == {k \in 1..Len(E.from) : E.from[k][1] = s}
    IN  IF arms = {} THEN E.other
        ELSE E.from[CHOOSE k \in arms : \A j \in arms : k <= j][2]

\* a string that is no wire string of any enum
UnknownWire == <<"x">>

\* no conversion has been made
WireIdle == wire = [op |-> "none", enum |-> "", variant |-> "", text |-> <<>>, of |-> None]

WireInit == WireIdle

\* a caller prints a variant
WireToString(E, v) ==
    /\ wire' = [op |-> "to_string", enum |-> E.name, variant |-> v,
                text |-> to_string(E, v), of |-> None]
    /\ UNCHANGED exceptWire

\* a caller parses the string printed last with the From of the same enum
WireFromPrinted(E) ==
    /\ wire.op = "to_string"
    /\ wire.enum = E.name
    /\ wire' = [op |-> "from", enum |-> E.name, variant |-> from_string(E, wire.text),
                text |-> wire.text, of |-> Some(wire.variant)]
    /\ UNCHANGED exceptWire

\* a caller parses a string that is no wire string
WireFromUnknown(E) ==
    /\ wire' = [op |-> "from", enum |-> E.name, variant |-> from_string(E, UnknownWire),
                text |-> UnknownWire, of |-> None]
    /\ UNCHANGED exceptWire

(***************************************************************************)
(* The document model (elements/)                                          *)
(*                                                                         *)
(* ParagraphProperties is modelled with its fields keep_next,              *)
(* paragraph_borders, ind, textbox_tight_wrap, outline_level and           *)
(* default_run_properties; its other fields keep their default value in    *)
(* every document of the model. RunProperties::default() and new make the  *)
(* seven fields that run_properties/mod.rs declares. xml/read.rs and       *)
(* xml/write.rs name four more, strike, dstrike, valign and spacing: a     *)
(* value carries one of these from the assignment that sets it, and one    *)
(* it does not carry is unset (RunProperties_undeclared).                  *)
(***************************************************************************)
\* Underline::new and Underline::value
Underline_new(style) == [value |-> Some(style)]

Underline_value(self) ==
    IF IsSome(self.value) THEN to_string(UnderlineStyle, Unwrap(self.value))
    ELSE <<"N", "o", "n", "e">>

\* HLColor::new and HLColor::value
HLColor_new(color) == [value |-> Some(color)]

HLColor_value(self) ==
    IF IsSome(self.value) THEN to_string(HighlightPalette, Unwrap(self.value)) ELSE <<>>

\* RunProperties::default
RunProperties_default ==
    [bold |-> FALSE, italic |-> FALSE, underline |-> None, color |-> None, size |-> None,
     font |-> None, highlight |-> None]

\* strike, dstrike, valign and spacing, the fields that xml/read.rs (398-442)
\* and xml/write.rs (522-523, 581-598) name and the struct does not declare,
\* with the values of a field that is not set
RunProperties_undeclared ==
    [strike |-> FALSE, dstrike |-> FALSE, valign |-> None, spacing |-> None]

\* properties.f, for a field f the struct does not declare
undeclared_property(properties, f) ==
    IF f \in DOMAIN properties THEN properties[f] ELSE RunProperties_undeclared[f]

\* VerticalAlign::new and VerticalAlign::value
VerticalAlign_new(value) == [value |-> value]

VerticalAlign_value(self) == to_string(AlignValues, self.value)

\* RunProperties::has_formatting: `self == &Self::default()`
RunProperties_has_formatting(rp) == rp = RunProperties_default

\* ParagraphBorderSide::default and ParagraphBorder::default
ParagraphBorderSide_default ==
    [val |-> "Single", sz |-> Some(4), space |-> None,
     color |-> Some(HexColor_new(<<"F", "F", "F", "F", "F", "F">>))]

ParagraphBorder_default ==
    [top |-> Some(ParagraphBorderSide_default), bottom |-> Some(ParagraphBorderSide_default),
     left |-> Some(ParagraphBorderSide_default), right |-> Some(ParagraphBorderSide_default),
     between |-> None]

\* ParagraphProperties::default (derived)
ParagraphProperties_default ==
    [keep_next |-> FALSE, paragraph_borders |-> None, ind |-> None,
     textbox_tight_wrap |-> None, outline_level |-> None,
     default_run_properties |-> None]

\* ParagraphProperties::has_formatting: `self != &Self::default()`
ParagraphProperties_has_formatting(pp) == pp # ParagraphProperties_default

\* Run::default
Run_default ==
    [properties |-> RunProperties_default, text |-> <<>>, space_preserve |-> FALSE]

\* <Run as From<String>>::from
Run_from(s) == [Run_default EXCEPT !.text = s]

\* Run::new
Run_new(properties, text, space_preserve) ==
    [properties |-> properties, text |-> text, space_preserve |-> space_preserve]

\* Hyperlink::default
Hyperlink_default == [id |-> <<>>, runs |-> <<>>]

\* Hyperlink::new: [rm |-> the registry after, ret |-> the hyperlink]
Hyperlink_new(target, rm, checks) ==
    LET res == generate_rid(rm, target, checks)
    IN  IF res.ret = Panic THEN [rm |-> rm, ret |-> Panic]
        ELSE [rm |-> res.rm, ret |-> [id |-> res.ret, runs |-> <<Run_from(target)>>]]

\* ParagraphChild::Run(r) and ParagraphChild::Hyperlink(h)
ChildRun(r) == <<"Run", r>>

ChildHyperlink(h) == <<"Hyperlink", h>>

\* Paragraph::default (derived)
Paragraph_default == [properties |-> ParagraphProperties_default, children |-> <<>>]

\* Document::default (derived)
Document_default == [paragraphs |-> <<>>, relationship_manager |-> RelationshipManager_new]

\* Display and From<&str> of ParagraphTBoxTightWrapValues
ParagraphTBoxTightWrapValues_to_string(v) == to_string(ParagraphTBoxTightWrapValues, v)

ParagraphTBoxTightWrapValues_from(s) == from_string(ParagraphTBoxTightWrapValues, s)

\* ParagraphTBoxTightWrap::new
ParagraphTBoxTightWrap_new(val) == [val |-> val]

\* <u8 as Display>::fmt and str::parse::<u8>
U8Digits(n) == U32Digits(<<0, n>>)

ParseU8(s) ==
    LET n == ParseU32(s)
    IN  IF n # None /\ Unwrap(n)[1] = 0 /\ Unwrap(n)[2] <= 255
        THEN Some(Unwrap(n)[2]) ELSE None

\* <i32 as Display>::fmt and str::parse::<i32>
I32MIN == -2147483647 - 1

I32Digits(n) ==
    IF n >= 0 THEN U32Digits(<<n \div Limb, n % Limb>>)
    ELSE IF n = I32MIN THEN <<"-">> \o U32Digits(<<Limb \div 2, 0>>)
    ELSE <<"-">> \o U32Digits(<<(-n) \div Limb, (-n) % Limb>>)

ParseI32(s) ==
    IF s = <<>> THEN None
    ELSE LET neg == Head(s) = "-"
             body == IF Head(s) \in {"+", "-"} THEN Tail(s) ELSE s
             m == IF body = <<>> THEN None ELSE ParseDigits(body, U32Zero)
         IN  IF m = None THEN None
             ELSE IF Unwrap(m)[1] < Limb \div 2
                  THEN Some(IF neg THEN -(Unwrap(m)[1] * Limb + Unwrap(m)[2])
                            ELSE Unwrap(m)[1] * Limb + Unwrap(m)[2])
             ELSE IF neg /\ Unwrap(m) = <<Limb \div 2, 0>> THEN Some(I32MIN)
             ELSE None

(***************************************************************************)
(* The encoder (xml/write.rs)                                              *)
(*                                                                         *)
(* The XML text is the sequence of the tokens the writer emits: a start    *)
(* tag, an empty-element tag, an end tag (each with its name and, in       *)
(* order, its attributes) or a run of escaped character data.  Two texts   *)
(* are byte-equal exactly when their token sequences are equal.            *)
(***************************************************************************)
StartTag(name, attrs) == [kind |-> "Start", name |-> name, attrs |-> attrs, text |-> <<>>]

EmptyTag(name, attrs) == [kind |-> "Empty", name |-> name, attrs |-> attrs, text |-> <<>>]

EndTag(name) == [kind |-> "End", name |-> name, attrs |-> <<>>, text |-> <<>>]

TextToken(t) == [kind |-> "Text", name |-> "", attrs |-> <<>>, text |-> t]

\* the element names of XmlWElement::as_str
XmlWElement ==
    [Document |-> "w:document", Body |-> "w:body", Paragraph |-> "w:p",
     ParagraphProps |-> "w:pPr", Run |-> "w:r", RunProps |-> "w:rPr", Text |-> "w:t",
     Hyperlink |-> "w:hyperlink", Bold |-> "w:b", Italic |-> "w:i", Strike |-> "w:strike",
     DStrike |-> "w:dstrike", VertAlign |-> "w:vertAlign",
     Color |-> "w:color", Size |-> "w:sz", KeepNext |-> "w:keepNext",
     TextboxTightWrap |-> "w:textboxTightWrap", Spacing |-> "w:spacing", Ind |-> "w:ind",
     Fonts |-> "w:rFonts", Underline |-> "w:u", Highlight |-> "w:highlight",
     BorderTop |-> "w:top", BorderBottom |-> "w:bottom", BorderLeft |-> "w:left",
     BorderRight |-> "w:right", BorderBetween |-> "w:between"]

\* XmlNs::as_str and XmlNs::url
XmlNs ==
    [W |-> <<"xmlns:w",
             <<"h", "t", "t", "p", ":", "/", "/", "s", "c", "h", "e", "m", "a", "s", ".", "o", "p", "e", "n", "x", "m", "l", "f", "o", "r", "m", "a", "t", "s", ".", "o", "r", "g", "/", "w", "o", "r", "d", "p", "r", "o", "c", "e", "s", "s", "i", "n", "g", "m", "l", "/", "2", "0", "0", "6", "/", "m", "a", "i", "n">>>>,
     R |-> <<"xmlns:r",
             <<"h", "t", "t", "p", ":", "/", "/", "s", "c", "h", "e", "m", "a", "s", ".", "o", "p", "e", "n", "x", "m", "l", "f", "o", "r", "m", "a", "t", "s", ".", "o", "r", "g", "/", "o", "f", "f", "i", "c", "e", "D", "o", "c", "u", "m", "e", "n", "t", "/", "2", "0", "0", "6", "/", "r", "e", "l", "a", "t", "i", "o", "n", "s", "h", "i", "p", "s">>>>]

\* XmlAttr::as_str
XmlAttr ==
    [Val |-> "w:val", Rid |-> "r:id", XmlSpace |-> "xml:space", Color |-> "w:color",
     Sz |-> "w:sz", Space |-> "w:space", Left |-> "w:left",
     Right |-> "w:right", Hanging |-> "w:hanging", FirstLine |-> "w:firstLine",
     LeftChars |-> "w:leftChars", RightChars |-> "w:rightChars",
     HangingChars |-> "w:hangingChars", FirstLineChars |-> "w:firstLineChars"]

\* XmlAttrValue::Preserve.as_str
XmlAttrValue_Preserve == <<"p", "r", "e", "s", "e", "r", "v", "e">>

\* what the writer's escaping puts for one character
escape_char(c) ==
    CASE c = "<" -> <<"&", "l", "t", ";">>
      [] c = ">" -> <<"&", "g", "t", ";">>
      [] c = "&" -> <<"&", "a", "m", "p", ";">>
      [] c = "'" -> <<"&", "a", "p", "o", "s", ";">>
      [] c = "\"" -> <<"&", "q", "u", "o", "t", ";">>
      [] OTHER -> <<c>>

\* BytesText::new followed by the writer's escaping of character data: each
\* character's replacement, in order (the text is split in halves to keep the
\* evaluation shallow)
RECURSIVE escape(_)
escape(s) ==
    IF s = <<>> THEN <<>>
    ELSE IF Len(s) = 1 THEN escape_char(s[1])
    ELSE LET h == Len(s) \div 2
         IN  escape(SubSeq(s, 1, h)) \o escape(SubSeq(s, h + 1, Len(s)))

\* ElementWriter::with_attribute: the value is written escaped
with_attribute(key, value) == <<key, escape(value)>>

\* ElementWriter::write_inner_content: start tag, the content, end tag
write_inner_content(name, attrs, inner) ==
    <<StartTag(name, attrs)>> \o inner \o <<EndTag(name)>>

\* ElementWriter::write_text_content: start tag, the escaped text, end tag
write_text_content(name, attrs, text) ==
    write_inner_content(name, attrs,
                        IF text = <<>> THEN <<>> ELSE <<TextToken(escape(text))>>)

\* write_attribute_element
write_attribute_element(element, attr_name, attr_value) ==
    <<EmptyTag(element, <<with_attribute(attr_name, attr_value)>>)>>

\* the `for (condition, element) in [...]` loops: an empty element per true flag
RECURSIVE write_flags(_)
write_flags(flags) ==
    IF flags = <<>> THEN <<>>
    ELSE (IF Head(flags)[1] THEN <<EmptyTag(Head(flags)[2], <<>>)>> ELSE <<>>)
         \o write_flags(Tail(flags))

\* `format!("w:{}", font_set.get_hint_value())`: w: and what Display for
\* FontType prints, as an attribute name
FontAttr(type) ==
    CASE type = "Ascii" -> "w:ascii"
      [] type = "HiAnsi" -> "w:hAnsi"
      [] type = "EastAsia" -> "w:eastAsia"
      [] type = "Cs" -> "w:cs"
      [] type = "AsciiTheme" -> "w:asciiTheme"
      [] type = "HiAnsiTheme" -> "w:hiAnsiTheme"
      [] type = "EastAsiaTheme" -> "w:eastAsiaTheme"
      [] type = "CsTheme" -> "w:csTheme"
      [] type = "Default" -> "w:default"

\* the `if let Some(font_set) = &properties.font` block of
\* write_run_properties: nothing for the hint Default and nothing when
\* get_hint fails, else w:rFonts with the one attribute the hint names
write_fonts(font) ==
    IF ~IsSome(font) THEN <<>>
    ELSE IF get_hint_value(Unwrap(font)) = "Default" THEN <<>>
    ELSE IF get_hint(Unwrap(font))[1] = "Ok"
    THEN <<EmptyTag(XmlWElement.Fonts,
                    <<with_attribute(FontAttr(get_hint_value(Unwrap(font))),
                                     get_hint(Unwrap(font))[2])>>)>>
    ELSE <<>>

\* write_run_properties
write_run_properties(properties) ==
    write_inner_content(XmlWElement.RunProps, <<>>,
        write_flags(<< <<properties.bold, XmlWElement.Bold>>,
                       <<properties.italic, XmlWElement.Italic>>,
                       <<undeclared_property(properties, "strike"), XmlWElement.Strike>>,
                       <<undeclared_property(properties, "dstrike"), XmlWElement.DStrike>> >>)
        \o (IF IsSome(properties.underline)
            THEN write_attribute_element(XmlWElement.Underline, XmlAttr.Val,
                                         Underline_value(Unwrap(properties.underline)))
            ELSE <<>>)
        \o (IF IsSome(properties.color)
            THEN write_attribute_element(XmlWElement.Color, XmlAttr.Val,
                                         Unwrap(properties.color).value)
            ELSE <<>>)
        \o (IF IsSome(properties.size)
            THEN write_attribute_element(XmlWElement.Size, XmlAttr.Val,
                                         U32Digits(Unwrap(properties.size)))
            ELSE <<>>)
        \o write_fonts(properties.font)
        \o (IF IsSome(properties.highlight)
            THEN write_attribute_element(XmlWElement.Highlight, XmlAttr.Val,
                                         HLColor_value(Unwrap(properties.highlight)))
            ELSE <<>>)
        \o (IF IsSome(undeclared_property(properties, "valign"))
            THEN write_attribute_element(XmlWElement.VertAlign, XmlAttr.Val,
                     VerticalAlign_value(Unwrap(undeclared_property(properties, "valign"))))
            ELSE <<>>)
        \o (IF IsSome(undeclared_property(properties, "spacing"))
            THEN write_attribute_element(XmlWElement.Spacing, XmlAttr.Val,
                     U32Digits(Unwrap(undeclared_property(properties, "spacing"))))
            ELSE <<>>))

\* write_run
write_run(run) ==
    write_inner_content(XmlWElement.Run, <<>>,
        (IF RunProperties_has_formatting(run.properties)
         THEN write_run_properties(run.properties) ELSE <<>>)
        \o (IF run.space_preserve
            THEN write_text_content(XmlWElement.Text,
                                    <<with_attribute(XmlAttr.XmlSpace,
                                                     XmlAttrValue_Preserve)>>,
                                    run.text)
            ELSE write_text_content(XmlWElement.Text, <<>>, run.text)))

\* `for run in ... { write_run(writer, run)?; }`
RECURSIVE write_runs(_)
write_runs(runs) ==
    IF runs = <<>> THEN <<>> ELSE write_run(Head(runs)) \o write_runs(Tail(runs))

\* write_hyperlink
write_hyperlink(hyperlink) ==
    write_inner_content(XmlWElement.Hyperlink,
                        <<with_attribute(XmlAttr.Rid, hyperlink.id)>>,
                        write_runs(hyperlink.runs))

\* MultiattributeElementFactory: add_attribute for each Some(value), in the
\* order of the pairs, then build
RECURSIVE add_attributes(_)
add_attributes(pairs) ==
    IF pairs = <<>> THEN <<>>
    ELSE (IF IsSome(Head(pairs)[2])
          THEN <<with_attribute(Head(pairs)[1], I32Digits(Unwrap(Head(pairs)[2])))>>
          ELSE <<>>)
         \o add_attributes(Tail(pairs))

\* the `// Indentation` block of write_paragraph_properties
write_indentation(indent) ==
    <<EmptyTag(XmlWElement.Ind,
               add_attributes(<< <<XmlAttr.FirstLine, indent.first_line>>,
                                 <<XmlAttr.FirstLineChars, indent.first_line_chars>>,
                                 <<XmlAttr.Right, indent.right>>,
                                 <<XmlAttr.RightChars, indent.right_chars>>,
                                 <<XmlAttr.Left, indent.left>>,
                                 <<XmlAttr.LeftChars, indent.left_chars>>,
                                 <<XmlAttr.Hanging, indent.hanging>>,
                                 <<XmlAttr.HangingChars, indent.hanging_chars>> >>))>>

\* one `if let Some(side) = &parahraph_border.top` block of the `// Borders`
\* part of write_paragraph_properties
write_border_side(element, side) ==
    IF IsSome(side)
    THEN <<EmptyTag(element,
               <<with_attribute(XmlAttr.Val,
                                to_string(ParagraphBorderStyle, Unwrap(side).val))>>
               \o (IF IsSome(Unwrap(side).color)
                   THEN <<with_attribute(XmlAttr.Color, Unwrap(Unwrap(side).color).value)>>
                   ELSE <<>>)
               \o (IF IsSome(Unwrap(side).sz)
                   THEN <<with_attribute(XmlAttr.Sz, U8Digits(Unwrap(Unwrap(side).sz)))>>
                   ELSE <<>>)
               \o (IF IsSome(Unwrap(side).space)
                   THEN <<with_attribute(XmlAttr.Space, U8Digits(Unwrap(Unwrap(side).space)))>>
                   ELSE <<>>))>>
    ELSE <<>>

\* write_paragraph_properties: the outline level is written under the element
\* name XmlWElement::TextboxTightWrap
write_paragraph_properties(properties) ==
    write_inner_content(XmlWElement.ParagraphProps, <<>>,
        write_flags(<< <<properties.keep_next, XmlWElement.KeepNext>> >>)
        \o (IF IsSome(properties.paragraph_borders)
            THEN LET b == Unwrap(properties.paragraph_borders)
                 IN  write_border_side(XmlWElement.BorderTop, b.top)
                     \o write_border_side(XmlWElement.BorderBottom, b.bottom)
                     \o write_border_side(XmlWElement.BorderLeft, b.left)
                     \o write_border_side(XmlWElement.BorderRight, b.right)
                     \o write_border_side(XmlWElement.BorderBetween, b.between)
            ELSE <<>>)
        \o (IF IsSome(properties.ind) THEN write_indentation(Unwrap(properties.ind))
            ELSE <<>>)
        \o (IF IsSome(properties.textbox_tight_wrap)
            THEN write_attribute_element(
                     XmlWElement.TextboxTightWrap, XmlAttr.Val,
                     ParagraphTBoxTightWrapValues_to_string(
                         Unwrap(properties.textbox_tight_wrap).val))
            ELSE <<>>)
        \o (IF IsSome(properties.outline_level)
            THEN write_attribute_element(XmlWElement.TextboxTightWrap, XmlAttr.Val,
                                         U8Digits(Unwrap(properties.outline_level)))
            ELSE <<>>)
        \o (IF IsSome(properties.default_run_properties)
            THEN write_run_properties(Unwrap(properties.default_run_properties))
            ELSE <<>>))

\* `for child in &paragraph.children { match child {...} }`
RECURSIVE write_children(_)
write_children(children) ==
    IF children = <<>> THEN <<>>
    ELSE (IF Head(children)[1] = "Run"
          THEN write_run(Head(children)[2])
          ELSE write_hyperlink(Head(children)[2]))
         \o write_children(Tail(children))

\* write_paragraph
write_paragraph(paragraph) ==
    write_inner_content(XmlWElement.Paragraph, <<>>,
        (IF ParagraphProperties_has_formatting(paragraph.properties)
         THEN write_paragraph_properties(paragraph.properties) ELSE <<>>)
        \o write_children(paragraph.children))

\* `for paragraph in &document.paragraphs { write_paragraph(writer, paragraph)?; }`
RECURSIVE write_paragraphs(_)
write_paragraphs(paragraphs) ==
    IF paragraphs = <<>> THEN <<>>
    ELSE write_paragraph(Head(paragraphs)) \o write_paragraphs(Tail(paragraphs))

\* write_body
write_body(document) ==
    write_inner_content(XmlWElement.Body, <<>>, write_paragraphs(document.paragraphs))

\* generate
generate(document) ==
    write_inner_content(XmlWElement.Document,
                        <<with_attribute(XmlNs.W[1], XmlNs.W[2]),
                          with_attribute(XmlNs.R[1], XmlNs.R[2])>>,
                        write_body(document))

(***************************************************************************)
(* The decoder (xml/read.rs)                                               *)
(***************************************************************************)
\* the characters with the code points 32..95 and 97..126, in order
AsciiChars ==
    <<" ", "!", "\"", "#", "$", "%", "&", "'", "(", ")", "*", "+", ",", "-", ".", "/",
      "0", "1", "2", "3", "4", "5", "6", "7", "8", "9", ":", ";", "<", "=", ">", "?",
      "@", "A", "B", "C", "D", "E", "F", "G", "H", "I", "J", "K", "L", "M", "N", "O",
      "P", "Q", "R", "S", "T", "U", "V", "W", "X", "Y", "Z", "[", "\\", "]", "^", "_",
      "a", "b", "c", "d", "e", "f", "g", "h", "i", "j", "k", "l", "m", "n", "o",
      "p", "q", "r", "s", "t", "u", "v", "w", "x", "y", "z", "{", "|", "}", "~">>

\* char::from_u32 of a character reference: None for 0, for a surrogate and
\* above 0x10FFFF; a character outside AsciiChars is written [codepoint |-> n]
char_from_u32(n) ==
    IF n = 0 \/ n > 1114111 \/ (n >= 55296 /\ n <= 57343) THEN None
    ELSE IF n >= 32 /\ n <= 95 THEN Some(AsciiChars[n - 31])
    ELSE IF n >= 97 /\ n <= 126 THEN Some(AsciiChars[n - 32])
    ELSE IF n = 9 THEN Some("\t")
    ELSE IF n = 10 THEN Some("\n")
    ELSE IF n = 13 THEN Some("\r")
    ELSE Some([codepoint |-> n])

\* u32::from_str_radix on the digits of a character reference: None where a
\* character is no digit of the radix, and for a number above 0x10FFFF, which
\* overflows the u32 or is refused by char::from_u32 as no character
RECURSIVE from_str_radix(_, _, _)
from_str_radix(digits, radix, acc) ==
    IF digits = <<>> THEN Some(acc)
    ELSE LET c == Head(digits)
             d == IF c \in DigitSet THEN DigitVal(c)
                  ELSE CASE c \in {"a", "A"} -> 10 [] c \in {"b", "B"} -> 11
                         [] c \in {"c", "C"} -> 12 [] c \in {"d", "D"} -> 13
                         [] c \in {"e", "E"} -> 14 [] c \in {"f", "F"} -> 15
                         [] OTHER -> 16
         IN  IF d >= radix \/ acc * radix + d > 1114111 THEN None
             ELSE from_str_radix(Tail(digits), radix, acc * radix + d)

\* the character an entity stands for, the text between `&` and `;`: the five
\* predefined names, `#` with decimal digits, `#x` with hexadecimal digits
resolve_entity(name) ==
    CASE name = <<"l", "t">> -> Some("<")
      [] name = <<"g", "t">> -> Some(">")
      [] name = <<"a", "m", "p">> -> Some("&")
      [] name = <<"a", "p", "o", "s">> -> Some("'")
      [] name = <<"q", "u", "o", "t">> -> Some("\"")
      [] Len(name) >= 3 /\ name[1] = "#" /\ name[2] = "x" ->
           LET n == from_str_radix(SubSeq(name, 3, Len(name)), 16, 0)
           IN  IF n = None THEN None ELSE char_from_u32(Unwrap(n))
      [] Len(name) >= 2 /\ name[1] = "#" /\ name[2] \in DigitSet ->
           LET n == from_str_radix(Tail(name), 10, 0)
           IN  IF n = None THEN None ELSE char_from_u32(Unwrap(n))
      [] OTHER -> None

\* BytesText::unescape and Attribute::decode_and_unescape_value: Some(text), or
\* None where a `&` has no `;` after it or the entity between them is not known
RECURSIVE unescape_from(_, _)
unescape_from(s, unescaped) ==
    IF s = <<>> THEN Some(unescaped)
    ELSE IF Head(s) # "&" THEN unescape_from(Tail(s), Append(unescaped, Head(s)))
    ELSE LET ends == {i \in 2..Len(s) : s[i] = ";"}
         IN  IF ends = {} THEN None
             ELSE LET e == CHOOSE i \in ends : \A j \in ends : i <= j
                      c == resolve_entity(SubSeq(s, 2, e - 1))
                  IN  IF c = None THEN None
                      ELSE unescape_from(SubSeq(s, e + 1, Len(s)),
                                         Append(unescaped, Unwrap(c)))

\* unescape of a whole text or attribute value
unescape(s) == unescape_from(s, <<>>)

\* Attributes::next with the check for duplicates, which the attributes of an
\* event have on: the item of attrs[i] is Err(AttrError::Duplicated) where an
\* attribute before it in the tag has its key
Duplicated(attrs, i) == \E j \in 1..(i - 1) : attrs[j][1] = attrs[i][1]

\* `attr.find(|x| x.clone().unwrap().key.as_ref() == key)` on the iterator
\* standing before attrs[from]: the closure unwraps every item it is handed,
\* so the find panics at a duplicated attribute that it reaches before an
\* attribute with the key; else it gives the raw value of the first attribute
\* with the key and leaves the iterator behind it, or gives None and leaves the
\* iterator at its end
attr_find(attrs, from, key) ==
    LET hits == {i \in from..Len(attrs) : attrs[i][1] = key}
        dups == {i \in from..Len(attrs) : Duplicated(attrs, i)}
        least(S) == CHOOSE i \in S : \A j \in S : i <= j
    IN  IF dups # {} /\ (hits = {} \/ least(dups) <= least(hits))
        THEN [panic |-> TRUE, value |-> None, next |-> least(dups) + 1]
        ELSE IF hits = {}
        THEN [panic |-> FALSE, value |-> None, next |-> Len(attrs) + 1]
        ELSE [panic |-> FALSE, value |-> Some(attrs[least(hits)][2]),
              next |-> least(hits) + 1]

\* `if let Some(Ok(a)) = <find> { if let Ok(v) = a.decode_and_unescape_value(..)`:
\* the unescaped value of what a find gave, None where it gave nothing or the
\* value does not unescape
decode_and_unescape_value(a) ==
    IF IsSome(a.value) THEN unescape(Unwrap(a.value)) ELSE None

\* the value of the attribute `key` of a tag where a find from the tag's first
\* attribute gives it and it unescapes
attr_value(attrs, key) == decode_and_unescape_value(attr_find(attrs, 1, key))

\* the finds of the w:ind arm, each on what the one before left of the
\* attribute iterator: <<attribute, field assigned>>, the w:rightChars value
\* being assigned to pi.left
IndFinds ==
    << <<"w:left", "left">>, <<"w:leftChars", "left_chars">>, <<"w:right", "right">>,
       <<"w:rightChars", "left">>, <<"w:hanging", "hanging">>,
       <<"w:hangingChars", "hanging_chars">>, <<"w:firstLine", "first_line">>,
       <<"w:firstLineChars", "first_line_chars">> >>

\* the k-th find of the w:ind arm and those after it, the iterator standing
\* before attrs[from]: [panic, pi], a find that panics ending the arm
RECURSIVE read_indentation(_, _, _, _)
read_indentation(attrs, from, k, pi) ==
    IF k > Len(IndFinds) THEN [panic |-> FALSE, pi |-> pi]
    ELSE LET a == attr_find(attrs, from, IndFinds[k][1])
             v == decode_and_unescape_value(a)
             n == IF IsSome(v) THEN ParseI32(Unwrap(v)) ELSE None
         IN  IF a.panic THEN [panic |-> TRUE, pi |-> pi]
             ELSE read_indentation(attrs, a.next, k + 1,
                      IF IsSome(v)
                      THEN [pi EXCEPT ![IndFinds[k][2]] =
                               Some(IF n = None THEN 0 ELSE Unwrap(n))]
                      ELSE pi)

\* the finds of the arm `w:top | w:left | w:bottom | w:right | w:between`, in
\* the order of the code, each on what the one before left of the iterator
BorderFinds == <<"w:val", "w:sz", "w:space", "w:color">>

\* the assignment the arm makes from the unescaped value v of the attribute key
border_assign(pbs, key, v) ==
    LET n == ParseU8(v)
    IN  CASE key = "w:val" -> [pbs EXCEPT !.val = from_string(ParagraphBorderStyle, v)]
          [] key = "w:sz" -> [pbs EXCEPT !.sz = Some(IF n = None THEN 0 ELSE Unwrap(n))]
          [] key = "w:space" ->
               [pbs EXCEPT !.space = Some(IF n = None THEN 0 ELSE Unwrap(n))]
          [] key = "w:color" -> [pbs EXCEPT !.color = Some(HexColor_new(v))]

\* the k-th find of the arm and those after it, the iterator standing before
\* attrs[from]: [panic, pbs], a find that panics ending the arm
RECURSIVE read_border_finds(_, _, _, _)
read_border_finds(attrs, from, k, pbs) ==
    IF k > Len(BorderFinds) THEN [panic |-> FALSE, pbs |-> pbs]
    ELSE LET a == attr_find(attrs, from, BorderFinds[k])
             v == decode_and_unescape_value(a)
         IN  IF a.panic THEN [panic |-> TRUE, pbs |-> pbs]
             ELSE read_border_finds(attrs, a.next, k + 1,
                      IF IsSome(v) THEN border_assign(pbs, BorderFinds[k], Unwrap(v))
                      ELSE pbs)

\* the side the arm builds from ParagraphBorderSide::default()
read_border_side(attrs) == read_border_finds(attrs, 1, 1, ParagraphBorderSide_default)

\* the attributes the w:rFonts arm matches besides w:hint, with the field of
\* the FontSet each assigns
FontAttrSlot(key) ==
    CASE key = "w:ascii" -> "ascii"
      [] key = "w:hiAnsi" -> "hi_ansi"
      [] key = "w:eastAsia" -> "east_asia"
      [] key = "w:cs" -> "cs"
      [] key = "w:asciiTheme" -> "ascii_theme"
      [] key = "w:hiAnsiTheme" -> "hi_ansi_theme"
      [] key = "w:eastAsiaTheme" -> "east_asia_theme"
      [] key = "w:csTheme" -> "cs_theme"
      [] OTHER -> ""

\* `for r in attr { if let Ok(a) = r { match a.key.as_ref() {..} } }` of the
\* w:rFonts arm, from attrs[i] on: an item that is an error is passed over, a
\* matched attribute whose value unescapes is written into p.font, which
\* starts from FontSet::default where it is None
RECURSIVE read_fonts(_, _, _)
read_fonts(attrs, i, font) ==
    IF i > Len(attrs) THEN font
    ELSE LET v == unescape(attrs[i][2])
             fs == IF IsSome(font) THEN Unwrap(font) ELSE FontSet_default
         IN  read_fonts(attrs, i + 1,
                 IF Duplicated(attrs, i) \/ v = None THEN font
                 ELSE IF attrs[i][1] = "w:hint"
                 THEN Some([fs EXCEPT !.hint = from_string(FontType_wire, Unwrap(v))])
                 ELSE IF FontAttrSlot(attrs[i][1]) # ""
                 THEN Some([fs EXCEPT ![FontAttrSlot(attrs[i][1])] = Some(Unwrap(v))])
                 ELSE font)

\* CurrentData::new
CurrentData_new ==
    [document |-> Document_default,
     paragraph |-> None,
     paragraph_properties |-> None,
     in_paragraph_properties |-> FALSE,
     hyperlink |-> None,
     run |-> None,
     run_properties |-> None,
     in_run_properties |-> FALSE]

\* `p.children.push(c)` on data.paragraph where there is one
push_child(data, c) ==
    IF IsSome(data.paragraph)
    THEN [data EXCEPT !.paragraph = Some([Unwrap(@) EXCEPT !.children = Append(@, c)])]
    ELSE data

\* a push that puts the paragraph before the ones already pushed
push_paragraph_Front(data, p) == [data EXCEPT !.document.paragraphs = <<p>> \o @]

\* `data.document.paragraphs.push(p)`
push_paragraph(data, p) == [data EXCEPT !.document.paragraphs = Append(@, p)]

\* `h.runs.push(r)` on data.hyperlink
push_hyperlink_run(data, r) ==
    [data EXCEPT !.hyperlink = Some([Unwrap(@) EXCEPT !.runs = Append(@, r)])]

\* the marker names the arms of handle_open_tag, handle_empty_tag and
\* handle_close_tag match
OpenTagNames == {"w:t", "w:rPr", "w:p", "w:pPr", "w:hyperlink", "w:r", "w:pBdr"}

EmptyTagNames ==
    {"w:b", "w:i", "w:u", "w:color", "w:sz", "w:rFonts", "w:highlight", "w:strike",
     "w:dstrike", "w:valign", "w:spacing", "w:keepNext", "w:keepLines",
     "w:pageBreakBefore", "w:windowControl", "w:suppressLineNumbers",
     "w:suppressAutoHyphens", "w:wordWrap", "w:toplinePunct", "w:autoSpaceDE",
     "w:autoSpaceDN", "w:bidi", "w:snapToGrid", "w:contextualSpacing",
     "w:mirrorIndents", "w:suppressOverlap", "w:jc", "w:textDirection", "w:textFlow",
     "w:textAlignment", "w:textboxTightWrap", "w:outlineLvl", "w:ind", "w:top",
     "w:left", "w:bottom", "w:right", "w:between"}

CloseTagNames == {"w:t", "w:rPr", "w:p", "w:hyperlink", "w:r"}

\* a default arm that gives up the run being read
skip_marker_DropRun(data) == [data EXCEPT !.run = None]

\* the default arm `_ => Ok(())` of the three handlers
skip_marker(data) == data

\* handle_text of a reader that trims the text of its events
handle_text_Trim(data, text) ==
    LET keep == {i \in 1..Len(text) : text[i] # " "}
        trimmed == IF keep = {} THEN <<>>
                   ELSE SubSeq(text, CHOOSE i \in keep : \A j \in keep : i <= j,
                                     CHOOSE i \in keep : \A j \in keep : j <= i)
    IN  IF IsSome(data.run)
        THEN [data EXCEPT !.run = Some([Unwrap(@) EXCEPT !.text = @ \o trimmed])]
        ELSE data

\* a handle_text that overwrites the text the run already has
handle_text_Replace(data, text) ==
    IF IsSome(data.run)
    THEN [data EXCEPT !.run = Some([Unwrap(@) EXCEPT !.text = text])]
    ELSE data

\* handle_text
handle_text(data, text) ==
    IF IsSome(data.run)
    THEN [data EXCEPT !.run = Some([Unwrap(@) EXCEPT !.text = @ \o text])]
    ELSE data

\* the Ok(()) and Err(e) a handler returns, with the CurrentData it leaves, and
\* the handler that panics and returns nothing
HandlerOk(data) == [ok |-> TRUE, data |-> data, err |-> ""]

HandlerErr(data, e) == [ok |-> FALSE, data |-> data, err |-> e]

HandlerPanic(data) == [ok |-> FALSE, data |-> data, err |-> "panic"]

\* handle_open_tag
handle_open_tag(tag, data, attr) ==
    CASE tag = "w:t" -> HandlerOk(data)
      [] tag = "w:rPr" ->
           IF data.in_paragraph_properties
           THEN IF IsSome(data.paragraph_properties)
                THEN HandlerOk([data EXCEPT !.paragraph_properties =
                        Some([Unwrap(@) EXCEPT !.default_run_properties =
                                                  Some(RunProperties_default)])])
                ELSE HandlerOk(data)
           ELSE HandlerOk([data EXCEPT !.in_run_properties = TRUE])
      [] tag = "w:p" ->
           LET d1 == IF IsSome(data.paragraph)
                     THEN push_paragraph([data EXCEPT !.paragraph = None],
                                         Unwrap(data.paragraph))
                     ELSE data
           IN  HandlerOk([d1 EXCEPT
                             !.paragraph_properties = Some(ParagraphProperties_default),
                             !.paragraph = Some(Paragraph_default)])
      [] tag = "w:pPr" -> HandlerOk([data EXCEPT !.in_paragraph_properties = TRUE])
      [] tag = "w:hyperlink" ->
           LET d1 == IF IsSome(data.run)
                     THEN push_child([data EXCEPT !.run = None],
                                     ChildRun(Unwrap(data.run)))
                     ELSE data
               a == attr_find(attr, 1, "r:id")
               v == decode_and_unescape_value(a)
               link == IF IsSome(v) THEN [Hyperlink_default EXCEPT !.id = Unwrap(v)]
                       ELSE Hyperlink_default
           IN  IF a.panic THEN HandlerPanic(d1)
               ELSE HandlerOk([d1 EXCEPT !.hyperlink = Some(link)])
      [] tag = "w:r" ->
           LET d1 == IF IsSome(data.hyperlink)
                     THEN IF IsSome(data.run)
                          THEN push_hyperlink_run([data EXCEPT !.run = None],
                                                  Unwrap(data.run))
                          ELSE data
                     ELSE IF IsSome(data.run)
                          THEN push_child([data EXCEPT !.run = None],
                                          ChildRun(Unwrap(data.run)))
                          ELSE data
           IN  HandlerOk([d1 EXCEPT !.run_properties = Some(RunProperties_default),
                                    !.run = Some(Run_default)])
      [] tag = "w:pBdr" ->
           IF IsSome(data.paragraph_properties)
           THEN HandlerOk([data EXCEPT !.paragraph_properties =
                    Some([Unwrap(@) EXCEPT !.paragraph_borders =
                                              Some(ParagraphBorder_default)])])
           ELSE HandlerOk(data)
      [] OTHER -> HandlerOk(skip_marker(data))

\* `if data.in_run_properties { if let Some(ref mut p) = data.run_properties {..} }`
in_run_scope(data) == data.in_run_properties /\ IsSome(data.run_properties)

\* `if data.in_paragraph_properties { if let Some(ref mut p) = data.paragraph_properties {..} }`
in_paragraph_scope(data) ==
    data.in_paragraph_properties /\ IsSome(data.paragraph_properties)

\* the arms of handle_empty_tag that do one find of w:val and assign a field
\* of the paragraph properties outside the model
ParagraphValArms ==
    {"w:keepLines", "w:pageBreakBefore", "w:windowControl", "w:suppressLineNumbers",
     "w:suppressAutoHyphens", "w:wordWrap", "w:toplinePunct", "w:autoSpaceDE",
     "w:autoSpaceDN", "w:bidi", "w:snapToGrid", "w:contextualSpacing",
     "w:mirrorIndents", "w:suppressOverlap", "w:jc", "w:textDirection", "w:textFlow",
     "w:textAlignment"}

\* the run properties of data with the field f set to x
with_run_property(data, f, x) ==
    [data EXCEPT !.run_properties =
        Some([k \in DOMAIN Unwrap(@) \cup {f} |-> IF k = f THEN x ELSE Unwrap(@)[k]])]

\* the paragraph properties of data with the field f set to x
with_paragraph_property(data, f, x) ==
    [data EXCEPT !.paragraph_properties = Some([Unwrap(@) EXCEPT ![f] = x])]

\* handle_empty_tag
handle_empty_tag(tag, data, attr) ==
    LET a == attr_find(attr, 1, "w:val")
        v == decode_and_unescape_value(a)
    IN
    CASE tag = "w:b" ->
           LET d1 == IF in_run_scope(data) THEN with_run_property(data, "bold", TRUE)
                     ELSE data
               d2 == IF /\ in_paragraph_scope(d1)
                        /\ IsSome(Unwrap(d1.paragraph_properties).default_run_properties)
                     THEN [d1 EXCEPT !.paragraph_properties =
                             Some([Unwrap(@) EXCEPT !.default_run_properties =
                                     Some([Unwrap(@) EXCEPT !.bold = TRUE])])]
                     ELSE d1
           IN  HandlerOk(d2)
      [] tag = "w:i" ->
           IF in_run_scope(data) THEN HandlerOk(with_run_property(data, "italic", TRUE))
           ELSE HandlerOk(data)
      [] tag = "w:u" ->
           IF ~in_run_scope(data) THEN HandlerOk(data)
           ELSE IF a.panic THEN HandlerPanic(data)
           ELSE IF IsSome(v)
           THEN HandlerOk(with_run_property(data, "underline",
                    Some(Underline_new(from_string(UnderlineStyle, Unwrap(v))))))
           ELSE HandlerOk(data)
      [] tag = "w:color" ->
           IF ~in_run_scope(data) THEN HandlerOk(data)
           ELSE IF a.panic THEN HandlerPanic(data)
           ELSE IF IsSome(v)
           THEN HandlerOk(with_run_property(data, "color", Some(HexColor_new(Unwrap(v)))))
           ELSE HandlerOk(data)
      [] tag = "w:sz" ->
           IF ~in_run_scope(data) THEN HandlerOk(data)
           ELSE IF a.panic THEN HandlerPanic(data)
           ELSE IF IsSome(v)
           THEN LET n == ParseU32(Unwrap(v))
                IN  IF n = None THEN HandlerErr(data, "NumParseError")
                    ELSE HandlerOk(with_run_property(data, "size", Some(Unwrap(n))))
           ELSE HandlerOk(data)
      [] tag = "w:rFonts" ->
           IF in_run_scope(data)
           THEN HandlerOk(with_run_property(data, "font",
                    read_fonts(attr, 1, Unwrap(data.run_properties).font)))
           ELSE HandlerOk(data)
      [] tag = "w:highlight" ->
           IF ~in_run_scope(data) THEN HandlerOk(data)
           ELSE IF a.panic THEN HandlerPanic(data)
           ELSE IF IsSome(v)
           THEN HandlerOk(with_run_property(data, "highlight",
                    Some(HLColor_new(from_string(HighlightPalette, Unwrap(v))))))
           ELSE HandlerOk(data)
      [] tag = "w:strike" ->
           IF in_run_scope(data) THEN HandlerOk(with_run_property(data, "strike", TRUE))
           ELSE HandlerOk(data)
      [] tag = "w:dstrike" ->
           IF in_run_scope(data) THEN HandlerOk(with_run_property(data, "dstrike", TRUE))
           ELSE HandlerOk(data)
      [] tag = "w:valign" ->
           IF ~in_run_scope(data) THEN HandlerOk(data)
           ELSE IF a.panic THEN HandlerPanic(data)
           ELSE IF IsSome(v)
           THEN HandlerOk(with_run_property(data, "valign",
                    Some(VerticalAlign_new(from_string(AlignValues, Unwrap(v))))))
           ELSE HandlerOk(data)
      [] tag = "w:spacing" ->
           IF ~in_run_scope(data) THEN HandlerOk(data)
           ELSE IF a.panic THEN HandlerPanic(data)
           ELSE IF IsSome(v)
           THEN LET n == ParseU32(Unwrap(v))
                IN  IF n = None THEN HandlerErr(data, "NumParseError")
                    ELSE HandlerOk(with_run_property(data, "spacing", Some(Unwrap(n))))
           ELSE HandlerOk(data)
      [] tag = "w:keepNext" ->
           IF ~in_paragraph_scope(data) THEN HandlerOk(data)
           ELSE IF a.panic THEN HandlerPanic(data)
           ELSE IF IsSome(a.value)
           THEN IF IsSome(v) /\ Unwrap(v) \notin {<<"o", "f", "f">>, <<"0">>, <<"f", "a", "l", "s", "e">>}
                THEN HandlerOk(with_paragraph_property(data, "keep_next", TRUE))
                ELSE HandlerOk(data)
           ELSE HandlerOk(with_paragraph_property(data, "keep_next", TRUE))
      [] tag \in ParagraphValArms ->
           IF in_paragraph_scope(data) /\ a.panic THEN HandlerPanic(data)
           ELSE HandlerOk(data)
      [] tag = "w:textboxTightWrap" ->
           IF ~in_paragraph_scope(data) THEN HandlerOk(data)
           ELSE IF a.panic THEN HandlerPanic(data)
           ELSE IF IsSome(v)
           THEN HandlerOk(with_paragraph_property(data, "textbox_tight_wrap",
                    Some(ParagraphTBoxTightWrap_new(
                             ParagraphTBoxTightWrapValues_from(Unwrap(v))))))
           ELSE HandlerOk(data)
      [] tag = "w:outlineLvl" ->
           IF ~in_paragraph_scope(data) THEN HandlerOk(data)
           ELSE IF a.panic THEN HandlerPanic(data)
           ELSE IF IsSome(v)
           THEN LET n == ParseU8(Unwrap(v))
                IN  HandlerOk(with_paragraph_property(data, "outline_level",
                        Some(IF n = None THEN 0 ELSE Unwrap(n))))
           ELSE HandlerOk(data)
      [] tag = "w:ind" ->
           IF ~in_paragraph_scope(data) THEN HandlerOk(data)
           ELSE LET r == read_indentation(attr, 1, 1, ParagraphIndentation_default)
                IN  IF r.panic THEN HandlerPanic(data)
                    ELSE HandlerOk(with_paragraph_property(data, "ind", Some(r.pi)))
      [] tag \in {"w:top", "w:left", "w:bottom", "w:right", "w:between"} ->
           \* every side is assigned to p.top
           IF /\ in_paragraph_scope(data)
              /\ IsSome(Unwrap(data.paragraph_properties).paragraph_borders)
           THEN LET r == read_border_side(attr)
                IN  IF r.panic THEN HandlerPanic(data)
                    ELSE HandlerOk(with_paragraph_property(data, "paragraph_borders",
                             Some([Unwrap(Unwrap(data.paragraph_properties).paragraph_borders)
                                      EXCEPT !.top = Some(r.pbs)])))
           ELSE HandlerOk(data)
      [] OTHER -> HandlerOk(skip_marker(data))

\* a close handler that forgets the accumulated properties of the run
attach_run_properties_Skip(data, r) == [data |-> data, r |-> r]

\* `if let Some(rp) = data.run_properties.take() { r.properties = rp; }` for the
\* run r taken out of data.run: [data, r]
attach_run_properties(data, r) ==
    IF IsSome(data.run_properties)
    THEN [data |-> [data EXCEPT !.run_properties = None],
          r    |-> [r EXCEPT !.properties = Unwrap(data.run_properties)]]
    ELSE [data |-> data, r |-> r]

\* a close of the paragraph that folds the hyperlink and the run into it by
\* reference and leaves them in their slots
close_paragraph_KeepSlots(data) ==
    IF IsSome(data.paragraph)
    THEN LET p == Unwrap(data.paragraph)
             d1 == [data EXCEPT !.paragraph = None]
         IN  IF IsSome(d1.hyperlink)
             THEN LET h == Unwrap(d1.hyperlink)
                      h2 == IF IsSome(d1.run)
                            THEN [h EXCEPT !.runs = Append(@, Unwrap(d1.run))]
                            ELSE h
                  IN  push_paragraph(d1, [p EXCEPT !.children =
                                                      Append(@, ChildHyperlink(h2))])
             ELSE IF IsSome(d1.run)
                  THEN push_paragraph(d1, [p EXCEPT !.children =
                                                 Append(@, ChildRun(Unwrap(d1.run)))])
                  ELSE push_paragraph(d1, p)
    ELSE data

\* the w:p arm of handle_close_tag
close_paragraph(data) ==
    IF IsSome(data.paragraph)
    THEN LET p == Unwrap(data.paragraph)
             d1 == [data EXCEPT !.paragraph = None]
         IN  IF IsSome(d1.hyperlink)
             THEN LET h == Unwrap(d1.hyperlink)
                      h2 == IF IsSome(d1.run)
                            THEN [h EXCEPT !.runs = Append(@, Unwrap(d1.run))]
                            ELSE h
                      p2 == [p EXCEPT !.children = Append(@, ChildHyperlink(h2))]
                  IN  push_paragraph([d1 EXCEPT !.hyperlink = None, !.run = None], p2)
             ELSE IF IsSome(d1.run)
                  THEN push_paragraph(
                           [d1 EXCEPT !.run = None],
                           [p EXCEPT !.children = Append(@, ChildRun(Unwrap(d1.run)))])
                  ELSE push_paragraph(d1, p)
    ELSE data

\* handle_close_tag
handle_close_tag(tag, data) ==
    CASE tag = "w:t" -> data
      [] tag = "w:rPr" ->
           IF data.in_paragraph_properties THEN data
           ELSE [data EXCEPT !.in_run_properties = FALSE]
      [] tag = "w:p" -> close_paragraph(data)
      [] tag = "w:hyperlink" ->
           IF IsSome(data.hyperlink)
           THEN LET h == Unwrap(data.hyperlink)
                    d1 == [data EXCEPT !.hyperlink = None]
                    a == IF IsSome(d1.run)
                         THEN attach_run_properties([d1 EXCEPT !.run = None],
                                                    Unwrap(d1.run))
                         ELSE [data |-> d1, r |-> <<>>]
                    h2 == IF IsSome(d1.run) THEN [h EXCEPT !.runs = Append(@, a.r)]
                          ELSE h
                IN  push_child(a.data, ChildHyperlink(h2))
           ELSE data
      [] tag = "w:r" ->
           IF IsSome(data.run)
           THEN LET a == attach_run_properties([data EXCEPT !.run = None],
                                               Unwrap(data.run))
                IN  IF IsSome(a.data.hyperlink)
                    THEN push_hyperlink_run(a.data, a.r)
                    ELSE push_child(a.data, ChildRun(a.r))
           ELSE data
      [] OTHER -> skip_marker(data)

\* handle_eof: the paragraph is taken out of data.paragraph first, so the inner
\* `data.paragraph.take()` of the hyperlink branch finds nothing
handle_eof(data) ==
    IF IsSome(data.paragraph)
    THEN LET p == Unwrap(data.paragraph)
             d1 == [data EXCEPT !.paragraph = None]
             d2 == IF IsSome(d1.hyperlink)
                   THEN LET d3 == [d1 EXCEPT !.hyperlink = None]
                        IN  IF IsSome(d3.paragraph)
                            THEN [d3 EXCEPT !.paragraph = None, !.run = None]
                            ELSE d3
                   ELSE d1
         IN  IF IsSome(d2.run)
             THEN push_paragraph([d2 EXCEPT !.run = None],
                                 [p EXCEPT !.children = Append(@, ChildRun(Unwrap(d2.run)))])
             ELSE push_paragraph(d2, p)
    ELSE data

\* the Result<Document, RudocxError> of parse and load
Ok(document) == [ok |-> TRUE, document |-> document, err |-> ""]

Err(e) == [ok |-> FALSE, document |-> <<>>, err |-> e]

\* a handler panicked: the call returns nothing
Panicked == [ok |-> FALSE, document |-> <<>>, err |-> "panic"]

\* reader.read_event_into of a Reader in its default configuration, which
\* checks end names: the end tag at token i does not close the element that is
\* open innermost, and the reader returns an error in place of the event
MismatchedEnd(tokens, i) ==
    /\ tokens[i].kind = "End"
    /\ LET depth(k) == Cardinality({j \in 1..k : tokens[j].kind = "Start"})
                       - Cardinality({j \in 1..k : tokens[j].kind = "End"})
           opens == {j \in 1..(i - 1) :
                        /\ tokens[j].kind = "Start"
                        /\ depth(j) = depth(i - 1)
                        /\ \A k \in j..(i - 1) : depth(k) >= depth(j)}
       IN  \/ opens = {}
           \/ tokens[CHOOSE j \in opens : \A k \in opens : k <= j].name # tokens[i].name

\* one turn of parse_ooxml's loop on an event: the state is the CurrentData and
\* the error that `?` returned, if any
parse_event(st, event) ==
    IF st.err # "" THEN st
    ELSE CASE event.kind = "Start" ->
                LET res == handle_open_tag(event.name, st.data, event.attrs)
                IN  IF res.ok THEN [st EXCEPT !.data = res.data]
                    ELSE [st EXCEPT !.err = res.err]
           [] event.kind = "Empty" ->
                LET res == handle_empty_tag(event.name, st.data, event.attrs)
                IN  IF res.ok THEN [st EXCEPT !.data = res.data]
                    ELSE [st EXCEPT !.err = res.err]
           [] event.kind = "Text" ->
                LET text == unescape(event.text)
                IN  IF IsSome(text)
                    THEN [st EXCEPT !.data = handle_text(@, Unwrap(text))]
                    ELSE [st EXCEPT !.err = "XmlError"]
           [] event.kind = "End" ->
                [st EXCEPT !.data = handle_close_tag(event.name, @)]

\* the loop over the events lo..hi of the content, in order, left by `?` at the
\* first error
RECURSIVE parse_events(_, _, _, _)
parse_events(content, lo, hi, st) ==
    IF st.err # "" \/ lo > hi THEN st
    ELSE IF lo = hi
         THEN IF MismatchedEnd(content, lo) THEN [st EXCEPT !.err = "XmlError"]
              ELSE parse_event(st, content[lo])
    ELSE LET mid == (lo + hi) \div 2
         IN  parse_events(content, mid + 1, hi, parse_events(content, lo, mid, st))

\* parse_ooxml (and parse, which only calls it)
parse_ooxml(content) ==
    LET st == parse_events(content, 1, Len(content),
                           [data |-> CurrentData_new, err |-> ""])
    IN  IF st.err = "panic" THEN Panicked
        ELSE IF st.err # "" THEN Err(st.err)
        ELSE Ok(handle_eof(st.data).document)

(***************************************************************************)
(* The package assembler (zip.rs)                                          *)
(***************************************************************************)
\* rels::bp::DOCUMENT_XML_PATH
DOCUMENT_XML_PATH == "word/document.xml"

\* generate_doc_rels: one Relationship element per link of the registry, in the
\* HashMap's iteration order, which is left open here
generate_doc_rels(relationship_manager) ==
    {<<id, relationship_manager.links[id]>> : id \in DOMAIN relationship_manager.links}

\* rels::bp::DOC_RELS_XML_CONTENT: a Relationships element with no Relationship
DOC_RELS_XML_CONTENT == {}

\* the relationships part that save can write. zip.rs's save calls
\* generate_doc_rels on a new buffer alone, a call no function of the source
\* takes: the one generate_doc_rels there is needs the registry as well. The
\* part is either what that function writes for the document's registry or,
\* as in the save of lib.rs, the constant DOC_RELS_XML_CONTENT
save_doc_rels(document) ==
    {generate_doc_rels(document.relationship_manager), DOC_RELS_XML_CONTENT}

\* the file at a path: there is none (or none that can be opened); bytes that
\* are no zip archive; or an archive, parts being part name -> entry
NoFile == [kind |-> "none", parts |-> <<>>]

NotArchive == [kind |-> "bytes", parts |-> <<>>]

Archive(parts) == [kind |-> "zip", parts |-> parts]

\* the entries of an archive: one that holds a text; one whose bytes are no
\* UTF-8 text; one that by_name cannot open without a password
TextPart(text) == [kind |-> "text", text |-> text]

BinaryPart == [kind |-> "binary", text |-> <<>>]

EncryptedPart(text) == [kind |-> "encrypted", text |-> text]

\* save(document, path), doc_rels being the relationships part and `file` what
\* the path holds before: [err, parts, files]. `fault` is the step that
\* fails, counted from 1 (0: none fails): File::create, then start_file and
\* write_all of each of the four parts, then finish; err is the error save
\* returns ("" for Ok(())), parts the parts written whole, and files what the
\* path can hold afterwards: a save that fails after File::create leaves the
\* bytes written so far, which the ZipWriter, when dropped, may have closed
\* into an archive of the parts written
save(document, doc_rels, fault, file) ==
    LET names == <<"_rels/.rels", "[Content_Types].xml", "word/_rels/document.xml.rels",
                   DOCUMENT_XML_PATH>>
        content(i) ==
            CASE i = 1 -> "RELS_XML_CONTENT"
              [] i = 2 -> "CONTENT_TYPES_XML_CONTENT"
              [] i = 3 -> doc_rels
              [] OTHER -> generate(document)
        whole == {i \in 1..4 : fault = 0 \/ 2 * i + 1 < fault}
        parts == [part \in {names[i] : i \in whole} |->
                     TextPart(content(CHOOSE i \in whole : names[i] = part))]
    IN  [err |-> CASE fault = 0 -> ""
                   [] fault = 1 -> "IoError"
                   [] fault = 10 -> "ZipError"
                   [] fault % 2 = 0 -> "ZipError"
                   [] OTHER -> "IoError",
         parts |-> parts,
         files |-> CASE fault = 0 -> {Archive(parts)}
                     [] fault = 1 -> {file}
                     [] OTHER -> {NotArchive, Archive(parts)}]

\* the step of save that fails: none, or one of its ten
SaveFaults == 0..10

(***************************************************************************)
(* Building a document, then encoding and decoding it                      *)
(***************************************************************************)
MaxChildren == 2

MaxParagraphs == 2

SeqsUpTo(S, n) == UNION {[1..k -> S] : k \in 0..n}

\* the calls that make a paragraph's children, in order, on the document's registry:
\* <<"Run", r>> pushes the run r, <<"Hyperlink", h>> the hyperlink value h, and
\* <<"Hyperlink::new", target>> the result of Hyperlink::new(target, &mut rm).
\* [panic, rm, children]: a Hyperlink::new that panics ends the calls, and the
\* caller gets no children
RECURSIVE build_children(_, _, _, _)
build_children(calls, rm, checks, children) ==
    IF calls = <<>> THEN [panic |-> FALSE, rm |-> rm, children |-> children]
    ELSE IF Head(calls)[1] = "Hyperlink::new"
    THEN IF generate_rid(rm, Head(calls)[2], checks).ret = Panic
         THEN [panic |-> TRUE, rm |-> rm, children |-> <<>>]
         ELSE LET res == Hyperlink_new(Head(calls)[2], rm, checks)
              IN  build_children(Tail(calls), res.rm, checks,
                                 Append(children, ChildHyperlink(res.ret)))
    ELSE build_children(Tail(calls), rm, checks, Append(children, Head(calls)))

\* the Document made by `calls`, per paragraph [properties, children], from
\* `document`: [panic, document], no Document being made where a call panics
RECURSIVE build_document(_, _, _)
build_document(calls, document, checks) ==
    IF calls = <<>> THEN [panic |-> FALSE, document |-> document]
    ELSE LET b == build_children(Head(calls).children, document.relationship_manager,
                                 checks, <<>>)
             p == [properties |-> Head(calls).properties, children |-> b.children]
         IN  IF b.panic THEN [panic |-> TRUE, document |-> <<>>]
             ELSE build_document(Tail(calls),
                                 [paragraphs |-> Append(document.paragraphs, p),
                                  relationship_manager |-> b.rm],
                                 checks)

BoldProperties == [RunProperties_default EXCEPT !.bold = TRUE]

ColorProperties ==
    [RunProperties_default EXCEPT !.italic = TRUE,
                               !.color = Some(HexColor_new(<<"F", "F", "0", "0", "F", "F">>))]

SizeProperties ==
    [strike |-> TRUE, spacing |-> Some(<<0, 20>>)]
    @@ [RunProperties_default EXCEPT
         !.size = Some(<<0, 24>>),
         !.underline = Some(Underline_new("Double")),
         !.highlight = Some(HLColor_new("DarkBlue")),
         !.font = Some([FontSet_default EXCEPT !.ascii = Some(<<"A", "r", "i", "a", "l">>),
                                               !.hint = "Ascii"])]

RunInputs ==
    { Run_from(<<"a">>),
      Run_new(BoldProperties, <<"b">>, FALSE),
      Run_new(RunProperties_default, <<" ">>, TRUE),
      Run_new(ColorProperties, <<"<", "&", "\"", "'">>, FALSE),
      Run_new(SizeProperties, <<>>, FALSE),
      Run_new(BoldProperties, <<" ", "c">>, TRUE) }

ChildCalls ==
    {<<"Run", r>> : r \in RunInputs}
    \cup {<<"Hyperlink::new", t>> : t \in Targets}
    \cup { <<"Hyperlink", [id |-> <<"r", "I", "d", "9">>, runs |-> <<>>]>>,
           <<"Hyperlink", [id |-> <<"r", "I", "d", "1">>,
                           runs |-> <<Run_from(<<"x">>),
                                      Run_new(BoldProperties, <<"y">>, FALSE)>>]>> }

ParagraphPropertiesInputs ==
    { ParagraphProperties_default,
      [ParagraphProperties_default EXCEPT !.keep_next = TRUE,
                                          !.default_run_properties = Some(BoldProperties)],
      [ParagraphProperties_default EXCEPT
           !.ind = Some([ParagraphIndentation_default EXCEPT
                            !.first_line = Some(720), !.left = Some(-360),
                            !.right_chars = Some(10)]),
           !.outline_level = Some(3),
           !.textbox_tight_wrap = Some(ParagraphTBoxTightWrap_new("AllLines"))] }

\* one paragraph of up to MaxChildren children
ParagraphCalls ==
    [properties : ParagraphPropertiesInputs, children : SeqsUpTo(ChildCalls, MaxChildren)]

\* paragraphs for the documents of several paragraphs
ShortParagraphCalls ==
    { [properties |-> ParagraphProperties_default, children |-> <<>>],
      [properties |-> ParagraphProperties_default,
       children |-> <<<<"Run", Run_from(<<"a">>)>>>>],
      [properties |-> ParagraphProperties_default,
       children |-> <<<<"Hyperlink::new", <<"h", "t", "t", "p", "s", ":", "/", "/", "a">>>>>>],
      [properties |-> [ParagraphProperties_default EXCEPT !.keep_next = TRUE],
       children |-> <<<<"Run", Run_new(BoldProperties, <<"b">>, FALSE)>>>>] }

DocumentCalls ==
    {<<p>> : p \in ParagraphCalls} \cup SeqsUpTo(ShortParagraphCalls, MaxParagraphs)

\* the input of test_parse_simple_doc, its texts shortened and each run of white space
\* between its elements written as one space
SimpleDocText ==
    << TextToken(<<" ">>),
       StartTag("w:document", <<<<"xmlns:w", <<"h", "t", "t", "p", ":", "/", "/", "s", "c", "h", "e", "m", "a", "s", ".", "o", "p", "e", "n", "x", "m", "l", "f", "o", "r", "m", "a", "t", "s", ".", "o", "r", "g", "/", "w", "o", "r", "d", "p", "r", "o", "c", "e", "s", "s", "i", "n", "g", "m", "l", "/", "2", "0", "0", "6", "/", "m", "a", "i", "n">>>>>>),
       TextToken(<<" ">>),
       StartTag("w:body", <<>>),
       TextToken(<<" ">>),
       StartTag("w:p", <<>>),
       TextToken(<<" ">>),
       StartTag("w:r", <<>>),
       StartTag("w:t", <<>>),
       TextToken(<<"p", "l", "a", "i", "n">>),
       EndTag("w:t"),
       EndTag("w:r"),
       TextToken(<<" ">>),
       EndTag("w:p"),
       TextToken(<<" ">>),
       StartTag("w:p", <<>>),
       TextToken(<<" ">>),
       StartTag("w:r", <<>>),
       StartTag("w:rPr", <<>>),
       EmptyTag("w:b", <<>>),
       EndTag("w:rPr"),
       StartTag("w:t", <<>>),
       TextToken(<<"b", "o", "l", "d">>),
       EndTag("w:t"),
       EndTag("w:r"),
       TextToken(<<" ">>),
       StartTag("w:r", <<>>),
       StartTag("w:t", <<<<"xml:space", <<"p", "r", "e", "s", "e", "r", "v", "e">>>>>>),
       TextToken(<<" ">>),
       EndTag("w:t"),
       EndTag("w:r"),
       TextToken(<<" ">>),
       StartTag("w:r", <<>>),
       StartTag("w:rPr", <<>>),
       EmptyTag("w:i", <<>>),
       EndTag("w:rPr"),
       StartTag("w:t", <<>>),
       TextToken(<<"i", "t", "a", "l", "i", "c">>),
       EndTag("w:t"),
       EndTag("w:r"),
       TextToken(<<" ">>),
       EndTag("w:p"),
       TextToken(<<" ">>),
       StartTag("w:p", <<>>),
       TextToken(<<" ">>),
       StartTag("w:r", <<>>),
       StartTag("w:rPr", <<>>),
       EmptyTag("w:b", <<>>),
       EmptyTag("w:i", <<>>),
       EndTag("w:rPr"),
       StartTag("w:t", <<>>),
       TextToken(<<"b", "o", "t", "h">>),
       EndTag("w:t"),
       EndTag("w:r"),
       TextToken(<<" ">>),
       EndTag("w:p"),
       TextToken(<<" ">>),
       StartTag("w:p", <<>>),
       TextToken(<<" ">>),
       StartTag("w:hyperlink", <<<<"r:id", <<"r", "I", "d", "1">>>>>>),
       TextToken(<<" ">>),
       StartTag("w:r", <<>>),
       StartTag("w:rPr", <<>>),
       EmptyTag("w:i", <<>>),
       EndTag("w:rPr"),
       StartTag("w:t", <<>>),
       TextToken(<<"l", "i", "n", "k">>),
       EndTag("w:t"),
       EndTag("w:r"),
       TextToken(<<" ">>),
       EndTag("w:hyperlink"),
       TextToken(<<" ">>),
       StartTag("w:r", <<>>),
       StartTag("w:t", <<>>),
       TextToken(<<" ", "a", "f", "t", "e", "r">>),
       EndTag("w:t"),
       EndTag("w:r"),
       TextToken(<<" ">>),
       EndTag("w:p"),
       TextToken(<<" ">>),
       EndTag("w:body"),
       TextToken(<<" ">>),
       EndTag("w:document"),
       TextToken(<<" ">>) >>

\* a paragraph with hyperlinks, runs and elements the decoder does not know
MixedDocText ==
    << StartTag("w:document", <<>>),
       StartTag("w:body", <<>>),
       StartTag("w:p", <<>>),
       EmptyTag("w:bookmarkStart", <<<<"w:id", <<"0">>>>>>),
       StartTag("w:hyperlink", <<<<"r:id", <<"r", "I", "d", "3">>>>>>),
       StartTag("w:r", <<>>),
       StartTag("w:t", <<>>),
       TextToken(<<"x">>),
       EndTag("w:t"),
       EndTag("w:r"),
       StartTag("w:r", <<>>),
       StartTag("w:t", <<>>),
       TextToken(<<"y">>),
       EndTag("w:t"),
       EndTag("w:r"),
       EndTag("w:hyperlink"),
       EmptyTag("w:proofErr", <<<<"w:type", <<"s", "p", "e", "l", "l", "E", "n", "d">>>>>>),
       StartTag("w:r", <<>>),
       StartTag("w:t", <<>>),
       TextToken(<<"z">>),
       EndTag("w:t"),
       EndTag("w:r"),
       StartTag("w:hyperlink", <<<<"r:id", <<"r", "I", "d", "4">>>>>>),
       EndTag("w:hyperlink"),
       StartTag("w:r", <<>>),
       StartTag("w:rPr", <<>>),
       EmptyTag("w:color", <<<<"w:val", <<"0", "0", "f", "f", "0", "0">>>>>>),
       EmptyTag("w:sz", <<<<"w:val", <<"2", "8">>>>>>),
       EmptyTag("w:dstrike", <<>>),
       EmptyTag("w:valign", <<<<"w:val", <<"s", "u", "p", "e", "r", "s", "c", "r", "i", "p", "t">>>>>>),
       EndTag("w:rPr"),
       StartTag("w:t", <<>>),
       TextToken(<<"a", " ", "&", "a", "m", "p", ";", " ", "b">>),
       EndTag("w:t"),
       EndTag("w:r"),
       EndTag("w:p"),
       StartTag("w:sectPr", <<>>),
       EmptyTag("w:pgSz", <<<<"w:w", <<"1", "1", "9", "0", "6">>>>>>),
       EndTag("w:sectPr"),
       EndTag("w:body"),
       EndTag("w:document") >>

\* paragraphs with paragraph properties, run properties and a hyperlink
PropertiesDocText ==
    << StartTag("w:document", <<>>),
       StartTag("w:body", <<>>),
       StartTag("w:p", <<>>),
       StartTag("w:pPr", <<>>),
       EmptyTag("w:keepNext", <<<<"w:val", <<"o", "f", "f">>>>>>),
       EmptyTag("w:outlineLvl", <<<<"w:val", <<"2">>>>>>),
       StartTag("w:rPr", <<>>),
       EmptyTag("w:b", <<>>),
       EndTag("w:rPr"),
       EndTag("w:pPr"),
       StartTag("w:r", <<>>),
       StartTag("w:rPr", <<>>),
       EmptyTag("w:b", <<>>),
       EmptyTag("w:strike", <<>>),
       EndTag("w:rPr"),
       StartTag("w:t", <<>>),
       TextToken(<<"p">>),
       EndTag("w:t"),
       EndTag("w:r"),
       StartTag("w:hyperlink", <<<<"r:id", <<"r", "I", "d", "2">>>>>>),
       StartTag("w:r", <<>>),
       StartTag("w:t", <<>>),
       TextToken(<<"q">>),
       EndTag("w:t"),
       EndTag("w:r"),
       EndTag("w:hyperlink"),
       EndTag("w:p"),
       StartTag("w:p", <<>>),
       StartTag("w:pPr", <<>>),
       EmptyTag("w:keepNext", <<>>),
       EmptyTag("w:textboxTightWrap", <<<<"w:val", <<"a", "l", "l", "L", "i", "n", "e", "s">>>>>>),
       EndTag("w:pPr"),
       StartTag("w:r", <<>>),
       StartTag("w:t", <<>>),
       TextToken(<<"r">>),
       EndTag("w:t"),
       EndTag("w:r"),
       EndTag("w:p"),
       EndTag("w:body"),
       EndTag("w:document") >>

\* a run whose size is not a number
BadSizeDocText ==
    << StartTag("w:document", <<>>),
       StartTag("w:body", <<>>),
       StartTag("w:p", <<>>),
       StartTag("w:r", <<>>),
       StartTag("w:rPr", <<>>),
       EmptyTag("w:b", <<>>),
       EmptyTag("w:sz", <<<<"w:val", <<"b", "i", "g">>>>>>),
       EndTag("w:rPr"),
       StartTag("w:t", <<>>),
       TextToken(<<"s">>),
       EndTag("w:t"),
       EndTag("w:r"),
       EndTag("w:p"),
       EndTag("w:body"),
       EndTag("w:document") >>

\* a run whose character spacing is not a number
BadSpacingDocText ==
    << StartTag("w:document", <<>>),
       StartTag("w:body", <<>>),
       StartTag("w:p", <<>>),
       StartTag("w:r", <<>>),
       StartTag("w:t", <<>>),
       TextToken(<<"u">>),
       EndTag("w:t"),
       EndTag("w:r"),
       StartTag("w:r", <<>>),
       StartTag("w:rPr", <<>>),
       EmptyTag("w:spacing", <<<<"w:val", <<"1", ".", "5">>>>>>),
       EndTag("w:rPr"),
       StartTag("w:t", <<>>),
       TextToken(<<"v">>),
       EndTag("w:t"),
       EndTag("w:r"),
       EndTag("w:p"),
       EndTag("w:body"),
       EndTag("w:document") >>

\* a paragraph whose left indentation is not a number
BadIndDocText ==
    << StartTag("w:document", <<>>),
       StartTag("w:body", <<>>),
       StartTag("w:p", <<>>),
       StartTag("w:pPr", <<>>),
       EmptyTag("w:ind", <<<<"w:left", <<"w", "i", "d", "e">>>>, <<"w:hanging", <<"3", "6", "0">>>>>>),
       EndTag("w:pPr"),
       StartTag("w:r", <<>>),
       StartTag("w:t", <<>>),
       TextToken(<<"w">>),
       EndTag("w:t"),
       EndTag("w:r"),
       EndTag("w:p"),
       EndTag("w:body"),
       EndTag("w:document") >>

\* a paragraph with an indentation and a run with a size and a character spacing
IndDocText ==
    << StartTag("w:document", <<>>),
       StartTag("w:body", <<>>),
       StartTag("w:p", <<>>),
       StartTag("w:pPr", <<>>),
       EmptyTag("w:ind", <<<<"w:left", <<"7", "2", "0">>>>, <<"w:leftChars", <<"1", "0">>>>, <<"w:right", <<"-", "5">>>>, <<"w:rightChars", <<"7">>>>, <<"w:hanging", <<"3", "6", "0">>>>>>),
       EndTag("w:pPr"),
       StartTag("w:r", <<>>),
       StartTag("w:rPr", <<>>),
       EmptyTag("w:sz", <<<<"w:val", <<"2", "4">>>>>>),
       EmptyTag("w:spacing", <<<<"w:val", <<"2", "0">>>>>>),
       EndTag("w:rPr"),
       StartTag("w:t", <<>>),
       TextToken(<<"i">>),
       EndTag("w:t"),
       EndTag("w:r"),
       EndTag("w:p"),
       EndTag("w:body"),
       EndTag("w:document") >>

\* a text that ends inside a run of a hyperlink
TruncatedDocText ==
    << StartTag("w:document", <<>>),
       StartTag("w:body", <<>>),
       StartTag("w:p", <<>>),
       StartTag("w:r", <<>>),
       StartTag("w:t", <<>>),
       TextToken(<<"k">>),
       EndTag("w:t"),
       EndTag("w:r"),
       StartTag("w:hyperlink", <<<<"r:id", <<"r", "I", "d", "1">>>>>>),
       StartTag("w:r", <<>>),
       StartTag("w:t", <<>>),
       TextToken(<<"x">>),
       EndTag("w:t"),
       EndTag("w:r"),
       StartTag("w:r", <<>>),
       StartTag("w:t", <<>>),
       TextToken(<<"y">>) >>

\* a hyperlink run with elements the decoder does not know, and an empty run element
UnknownDocText ==
    << StartTag("w:document", <<>>),
       StartTag("w:body", <<>>),
       StartTag("w:p", <<>>),
       StartTag("w:pPr", <<>>),
       EmptyTag("w:pStyle", <<<<"w:val", <<"T", "i", "t", "l", "e">>>>>>),
       EndTag("w:pPr"),
       StartTag("w:hyperlink", <<<<"r:id", <<"r", "I", "d", "1">>>>>>),
       StartTag("w:r", <<>>),
       StartTag("w:rPr", <<>>),
       EmptyTag("w:b", <<>>),
       EmptyTag("w:noProof", <<>>),
       EndTag("w:rPr"),
       EmptyTag("w:lastRenderedPageBreak", <<>>),
       StartTag("w:t", <<>>),
       TextToken(<<"x">>),
       EndTag("w:t"),
       StartTag("w:ruby", <<>>),
       StartTag("w:rt", <<>>),
       EndTag("w:rt"),
       EndTag("w:ruby"),
       EndTag("w:r"),
       EndTag("w:hyperlink"),
       EmptyTag("w:r", <<>>),
       EndTag("w:p"),
       EndTag("w:body"),
       EndTag("w:document") >>

\* a paragraph with properties, followed by a paragraph whose run is bold and
\* italic and whose hyperlink has no reference id
ScopeDocText ==
    << StartTag("w:document", <<>>),
       StartTag("w:body", <<>>),
       StartTag("w:p", <<>>),
       StartTag("w:pPr", <<>>),
       EmptyTag("w:keepNext", <<>>),
       EndTag("w:pPr"),
       StartTag("w:r", <<>>),
       StartTag("w:t", <<>>),
       TextToken(<<"a">>),
       EndTag("w:t"),
       EndTag("w:r"),
       EndTag("w:p"),
       StartTag("w:p", <<>>),
       StartTag("w:r", <<>>),
       StartTag("w:rPr", <<>>),
       EmptyTag("w:b", <<>>),
       EmptyTag("w:i", <<>>),
       EndTag("w:rPr"),
       StartTag("w:t", <<>>),
       TextToken(<<"b">>),
       EndTag("w:t"),
       EndTag("w:r"),
       StartTag("w:hyperlink", <<<<"w:anchor", <<"t">>>>>>),
       StartTag("w:r", <<>>),
       StartTag("w:t", <<>>),
       TextToken(<<"c">>),
       EndTag("w:t"),
       EndTag("w:r"),
       EndTag("w:hyperlink"),
       EndTag("w:p"),
       EndTag("w:body"),
       EndTag("w:document") >>

\* a paragraph whose run holds a text box with a paragraph of its own
TextboxDocText ==
    << StartTag("w:document", <<>>),
       StartTag("w:body", <<>>),
       StartTag("w:p", <<>>),
       StartTag("w:r", <<>>),
       StartTag("w:t", <<>>),
       TextToken(<<"o">>),
       EndTag("w:t"),
       StartTag("w:pict", <<>>),
       StartTag("w:p", <<>>),
       StartTag("w:r", <<>>),
       StartTag("w:t", <<>>),
       TextToken(<<"x">>),
       EndTag("w:t"),
       EndTag("w:r"),
       EndTag("w:p"),
       EndTag("w:pict"),
       EndTag("w:r"),
       EndTag("w:p"),
       EndTag("w:body"),
       EndTag("w:document") >>

\* paragraphs that close while a hyperlink and its run, or a bare run, are
\* still open around them
FoldDocText ==
    << StartTag("w:document", <<>>),
       StartTag("w:body", <<>>),
       StartTag("w:p", <<>>),
       StartTag("w:hyperlink", <<<<"r:id", <<"r", "I", "d", "1">>>>>>),
       StartTag("w:r", <<>>),
       StartTag("w:rPr", <<>>),
       EmptyTag("w:b", <<>>),
       EndTag("w:rPr"),
       StartTag("w:t", <<>>),
       TextToken(<<"h">>),
       EndTag("w:t"),
       StartTag("w:p", <<>>),
       EndTag("w:p"),
       EndTag("w:r"),
       EndTag("w:hyperlink"),
       EndTag("w:p"),
       StartTag("w:p", <<>>),
       StartTag("w:r", <<>>),
       StartTag("w:t", <<>>),
       TextToken(<<"o">>),
       EndTag("w:t"),
       StartTag("w:p", <<>>),
       EndTag("w:p"),
       EndTag("w:r"),
       EndTag("w:p"),
       EndTag("w:body"),
       EndTag("w:document") >>

\* a run, then a run with a hyperlink opened inside it, and a run opened
\* inside a run of the hyperlink
NestedRunDocText ==
    << StartTag("w:document", <<>>),
       StartTag("w:body", <<>>),
       StartTag("w:p", <<>>),
       StartTag("w:r", <<>>),
       StartTag("w:t", <<>>),
       TextToken(<<"k">>),
       EndTag("w:t"),
       EndTag("w:r"),
       StartTag("w:r", <<>>),
       StartTag("w:rPr", <<>>),
       EmptyTag("w:b", <<>>),
       EndTag("w:rPr"),
       StartTag("w:t", <<>>),
       TextToken(<<"a">>),
       EndTag("w:t"),
       StartTag("w:hyperlink", <<<<"r:id", <<"r", "I", "d", "2">>>>>>),
       StartTag("w:r", <<>>),
       StartTag("w:rPr", <<>>),
       EmptyTag("w:i", <<>>),
       EndTag("w:rPr"),
       StartTag("w:t", <<>>),
       TextToken(<<"b">>),
       EndTag("w:t"),
       StartTag("w:r", <<>>),
       StartTag("w:t", <<>>),
       TextToken(<<"c">>),
       EndTag("w:t"),
       EndTag("w:r"),
       EndTag("w:r"),
       EndTag("w:hyperlink"),
       EndTag("w:r"),
       EndTag("w:p"),
       EndTag("w:body"),
       EndTag("w:document") >>

\* paragraph properties opened inside the run properties of a run
NestedScopeDocText ==
    << StartTag("w:document", <<>>),
       StartTag("w:body", <<>>),
       StartTag("w:p", <<>>),
       StartTag("w:r", <<>>),
       StartTag("w:rPr", <<>>),
       StartTag("w:pPr", <<>>),
       StartTag("w:rPr", <<>>),
       EmptyTag("w:b", <<>>),
       EndTag("w:rPr"),
       EndTag("w:pPr"),
       EndTag("w:rPr"),
       StartTag("w:t", <<>>),
       TextToken(<<"a">>),
       EndTag("w:t"),
       EndTag("w:r"),
       EndTag("w:p"),
       EndTag("w:body"),
       EndTag("w:document") >>

\* paragraphs whose properties hold the keep-with-next marker with and without
\* a value, once and twice
FlagsDocText ==
    << StartTag("w:document", <<>>),
       StartTag("w:body", <<>>),
       StartTag("w:p", <<>>),
       StartTag("w:pPr", <<>>),
       EmptyTag("w:keepNext", <<<<"w:val", <<"o", "f", "f">>>>>>),
       EndTag("w:pPr"),
       EndTag("w:p"),
       StartTag("w:p", <<>>),
       StartTag("w:pPr", <<>>),
       EmptyTag("w:keepNext", <<<<"w:val", <<"o", "n">>>>>>),
       EmptyTag("w:keepNext", <<<<"w:val", <<"0">>>>>>),
       EndTag("w:pPr"),
       EndTag("w:p"),
       StartTag("w:p", <<>>),
       StartTag("w:pPr", <<>>),
       EmptyTag("w:keepNext", <<>>),
       EmptyTag("w:keepNext", <<<<"w:val", <<"f", "a", "l", "s", "e">>>>>>),
       EndTag("w:pPr"),
       EndTag("w:p"),
       StartTag("w:p", <<>>),
       StartTag("w:pPr", <<>>),
       EmptyTag("w:keepNext", <<<<"w:val", <<"1">>>>>>),
       EndTag("w:pPr"),
       EndTag("w:p"),
       EndTag("w:body"),
       EndTag("w:document") >>

\* a text that ends inside a bold bare run
EofRunDocText ==
    << StartTag("w:document", <<>>),
       StartTag("w:body", <<>>),
       StartTag("w:p", <<>>),
       StartTag("w:r", <<>>),
       StartTag("w:rPr", <<>>),
       EmptyTag("w:b", <<>>),
       EndTag("w:rPr"),
       StartTag("w:t", <<>>),
       TextToken(<<"e">>) >>

\* a text whose paragraph end tag stands where the end tag of the run is due
MismatchedDocText ==
    << StartTag("w:document", <<>>),
       StartTag("w:body", <<>>),
       StartTag("w:p", <<>>),
       StartTag("w:r", <<>>),
       StartTag("w:t", <<>>),
       TextToken(<<"a">>),
       EndTag("w:t"),
       EndTag("w:p"),
       EndTag("w:r") >>

\* an italic run that holds a text box whose paragraph has default run
\* properties
TextboxPropertiesDocText ==
    << StartTag("w:document", <<>>),
       StartTag("w:body", <<>>),
       StartTag("w:p", <<>>),
       StartTag("w:r", <<>>),
       StartTag("w:rPr", <<>>),
       EmptyTag("w:i", <<>>),
       EndTag("w:rPr"),
       StartTag("w:t", <<>>),
       TextToken(<<"o">>),
       EndTag("w:t"),
       StartTag("w:pict", <<>>),
       StartTag("w:p", <<>>),
       StartTag("w:pPr", <<>>),
       StartTag("w:rPr", <<>>),
       EmptyTag("w:b", <<>>),
       EndTag("w:rPr"),
       EndTag("w:pPr"),
       EndTag("w:p"),
       EndTag("w:pict"),
       EndTag("w:r"),
       EndTag("w:p"),
       EndTag("w:body"),
       EndTag("w:document") >>

\* a run with two text elements, white space between them and text after the
\* run
TwoTextsDocText ==
    << StartTag("w:document", <<>>),
       StartTag("w:body", <<>>),
       StartTag("w:p", <<>>),
       StartTag("w:r", <<>>),
       StartTag("w:t", <<>>),
       TextToken(<<"a">>),
       EndTag("w:t"),
       TextToken(<<" ">>),
       StartTag("w:t", <<>>),
       TextToken(<<"b", "&", "a", "m", "p", ";", "c">>),
       EndTag("w:t"),
       EndTag("w:r"),
       TextToken(<<" ", "t">>),
       EndTag("w:p"),
       EndTag("w:body"),
       EndTag("w:document") >>

\* a run whose colour is no colour code, then a paragraph whose textbox tight
\* wrap is no value of the enum and whose outline level is not a number
BadValuesDocText ==
    << StartTag("w:document", <<>>),
       StartTag("w:body", <<>>),
       StartTag("w:p", <<>>),
       StartTag("w:r", <<>>),
       StartTag("w:rPr", <<>>),
       EmptyTag("w:color", <<<<"w:val", <<"r", "e", "d">>>>>>),
       EndTag("w:rPr"),
       StartTag("w:t", <<>>),
       TextToken(<<"v">>),
       EndTag("w:t"),
       EndTag("w:r"),
       EndTag("w:p"),
       StartTag("w:p", <<>>),
       StartTag("w:pPr", <<>>),
       EmptyTag("w:textboxTightWrap", <<<<"w:val", <<"t", "i", "g", "h", "t">>>>>>),
       EmptyTag("w:outlineLvl", <<<<"w:val", <<"x">>>>>>),
       EndTag("w:pPr"),
       EndTag("w:p"),
       EndTag("w:body"),
       EndTag("w:document") >>

\* a run with an underline, a highlight and fonts, and the predefined entities and
\* character references in an attribute and in a text
EntitiesDocText ==
    << StartTag("w:p", <<>>),
       StartTag("w:hyperlink", <<<<"r:id", <<"a", "&", "q", "u", "o", "t", ";", "b">>>>>>),
       StartTag("w:r", <<>>),
       StartTag("w:rPr", <<>>),
       EmptyTag("w:u", <<<<"w:val", <<"s", "i", "n", "g", "l", "e">>>>>>),
       EmptyTag("w:highlight", <<<<"w:val", <<"y", "e", "l", "l", "o", "w">>>>>>),
       EmptyTag("w:rFonts", <<<<"w:ascii", <<"A", "r", "i", "a", "l">>>>, <<"w:hint", <<"c", "s">>>>, <<"w:cs", <<"N", "o", "t", "o">>>>>>),
       EndTag("w:rPr"),
       StartTag("w:t", <<>>),
       TextToken(<<"s", "a", "y", " ", "&", "q", "u", "o", "t", ";", "h", "i", "&", "q", "u", "o", "t", ";", " ", "i", "t", "&", "a", "p", "o", "s", ";", "s", " ", "&", "#", "6", "5", ";", "&", "#", "x", "4", "2", ";">>),
       EndTag("w:t"),
       EndTag("w:r"),
       EndTag("w:hyperlink"),
       EndTag("w:p") >>

\* paragraph borders
BordersDocText ==
    << StartTag("w:p", <<>>),
       StartTag("w:pPr", <<>>),
       StartTag("w:pBdr", <<>>),
       EmptyTag("w:top", <<<<"w:val", <<"d", "o", "u", "b", "l", "e">>>>, <<"w:sz", <<"8">>>>, <<"w:color", <<"0", "0", "F", "F", "0", "0">>>>>>),
       EmptyTag("w:left", <<<<"w:sz", <<"x">>>>>>),
       EndTag("w:pBdr"),
       EmptyTag("w:keepLines", <<>>),
       EndTag("w:pPr"),
       StartTag("w:r", <<>>),
       StartTag("w:t", <<>>),
       TextToken(<<"b">>),
       EndTag("w:t"),
       EndTag("w:r"),
       EndTag("w:p") >>

\* tags that repeat an attribute: behind the attribute that is looked for, and
\* before one that is looked for
DuplicatedIndDocText ==
    << StartTag("w:p", <<>>),
       StartTag("w:r", <<>>),
       StartTag("w:t", <<>>),
       TextToken(<<"a">>),
       EndTag("w:t"),
       EndTag("w:r"),
       EndTag("w:p"),
       StartTag("w:p", <<>>),
       StartTag("w:pPr", <<>>),
       EmptyTag("w:keepNext", <<<<"w:val", <<"o", "n">>>>, <<"w:val", <<"o", "f", "f">>>>>>),
       EmptyTag("w:ind", <<<<"w:left", <<"1">>>>, <<"w:left", <<"2">>>>>>),
       EndTag("w:pPr"),
       StartTag("w:r", <<>>),
       StartTag("w:t", <<>>),
       TextToken(<<"b">>),
       EndTag("w:t"),
       EndTag("w:r"),
       EndTag("w:p") >>

\* a hyperlink that repeats an attribute before its r:id
DuplicatedLinkDocText ==
    << StartTag("w:p", <<>>),
       StartTag("w:hyperlink", <<<<"w:x", <<"1">>>>, <<"w:x", <<"2">>>>, <<"r:id", <<"c">>>>>>),
       StartTag("w:r", <<>>),
       StartTag("w:t", <<>>),
       TextToken(<<"l">>),
       EndTag("w:t"),
       EndTag("w:r"),
       EndTag("w:hyperlink"),
       EndTag("w:p") >>

\* a paragraph that stands in a run
RunAroundParagraphDocText ==
    << StartTag("w:r", <<>>),
       StartTag("w:p", <<>>),
       EndTag("w:p"),
       EndTag("w:r") >>

\* XML texts given to parse directly
TextInputs ==
    {SimpleDocText, MixedDocText, PropertiesDocText, BadSizeDocText, BadSpacingDocText,
     BadIndDocText, IndDocText, TruncatedDocText, UnknownDocText, ScopeDocText,
     TextboxDocText, FoldDocText, NestedRunDocText, NestedScopeDocText, FlagsDocText,
     EofRunDocText, MismatchedDocText, TextboxPropertiesDocText, TwoTextsDocText,
     BadValuesDocText, EntitiesDocText, BordersDocText, DuplicatedIndDocText,
     DuplicatedLinkDocText, RunAroundParagraphDocText}

\* what load finds at its path: no file; a file that is no archive; archives
\* without the main document part (one of them has a document.xml outside
\* word/); archives with the part; an archive whose document part is
\* encrypted; and one whose document part is no UTF-8 text
ArchiveInputs ==
    { NoFile,
      NotArchive,
      Archive([part \in {"_rels/.rels", "[Content_Types].xml"} |->
                  IF part = "_rels/.rels" THEN TextPart("RELS_XML_CONTENT")
                  ELSE TextPart("CONTENT_TYPES_XML_CONTENT")]),
      Archive([part \in {"[Content_Types].xml", "document.xml"} |->
                  IF part = "document.xml" THEN TextPart(MixedDocText)
                  ELSE TextPart("CONTENT_TYPES_XML_CONTENT")]),
      Archive([part \in {"[Content_Types].xml", DOCUMENT_XML_PATH} |->
                  IF part = DOCUMENT_XML_PATH THEN TextPart(MixedDocText)
                  ELSE TextPart("CONTENT_TYPES_XML_CONTENT")]),
      Archive([part \in {DOCUMENT_XML_PATH} |-> TextPart(SimpleDocText)]),
      Archive([part \in {"[Content_Types].xml", DOCUMENT_XML_PATH} |->
                  IF part = DOCUMENT_XML_PATH THEN EncryptedPart(SimpleDocText)
                  ELSE TextPart("CONTENT_TYPES_XML_CONTENT")]),
      Archive([part \in {DOCUMENT_XML_PATH} |-> BinaryPart]) }

\* the caller has built a document and has not yet encoded it, or holds an XML
\* text, or has the path of an archive
CodecInit ==
    /\ \/ /\ built \in DocumentCalls
          /\ ~build_document(built, Document_default, overflow_checks).panic
          /\ doc = build_document(built, Document_default, overflow_checks).document
          /\ phase = "built"
          /\ xml = <<>>
          /\ package = NoFile
       \/ /\ built = <<>>
          /\ doc = Document_default
          /\ phase = "text"
          /\ xml \in TextInputs
          /\ package = NoFile
       \/ /\ built = <<>>
          /\ doc = Document_default
          /\ phase = "archive"
          /\ xml = <<>>
          /\ package \in ArchiveInputs
    /\ via = "none"
    /\ pos = 0
    /\ current_data = <<>>
    /\ result = <<>>

\* the caller runs parse(text)
Parse ==
    /\ phase = "text"
    /\ via' = "parse"
    /\ pos' = 1
    /\ current_data' = CurrentData_new
    /\ phase' = "parsing"
    /\ UNCHANGED <<built, doc, package, xml, result, exceptCodec>>

\* the caller runs parse(&generate(&doc)?): generate returns the text and parse
\* starts on it with CurrentData::new()
Generate ==
    /\ phase = "built"
    /\ via' = "generate"
    /\ xml' = generate(doc)
    /\ pos' = 1
    /\ current_data' = CurrentData_new
    /\ phase' = "parsing"
    /\ UNCHANGED <<built, doc, package, result, exceptCodec>>

\* the caller runs save(&doc, path): the archive is written, or a step of
\* save fails and save returns its error
Save ==
    /\ phase = "built"
    /\ via' = "save"
    /\ \E doc_rels \in save_doc_rels(doc), fault \in SaveFaults :
          LET res == save(doc, doc_rels, fault, package)
          IN  /\ package' \in res.files
              /\ IF res.err = ""
                 THEN /\ phase' = "saved"
                      /\ UNCHANGED result
                 ELSE /\ phase' = "failed"
                      /\ result' = Err(res.err)
    /\ UNCHANGED <<built, doc, xml, pos, current_data, exceptCodec>>

\* the caller runs load(path). File::open fails with IoError where there is no
\* file, ZipArchive::new with ZipError where the file is no archive; every
\* error of by_name, that of a part that is not there and that of a part it
\* cannot open, becomes MissingPart; read_to_string fails with IoError on a
\* part that is no UTF-8 text; otherwise parse starts on the part's text
Load ==
    /\ phase \in {"saved", "archive"}
    /\ via' = IF phase = "archive" THEN "load" ELSE via
    /\ LET err == CASE package.kind = "none" -> "IoError"
                     [] package.kind = "bytes" -> "ZipError"
                     [] DOCUMENT_XML_PATH \notin DOMAIN package.parts -> "MissingPart"
                     [] package.parts[DOCUMENT_XML_PATH].kind = "encrypted" -> "MissingPart"
                     [] package.parts[DOCUMENT_XML_PATH].kind = "binary" -> "IoError"
                     [] OTHER -> ""
       IN  IF err = ""
           THEN /\ xml' = package.parts[DOCUMENT_XML_PATH].text
                /\ pos' = 1
                /\ current_data' = CurrentData_new
                /\ phase' = "parsing"
                /\ UNCHANGED result
           ELSE /\ result' = Err(err)
                /\ phase' = "done"
                /\ UNCHANGED <<xml, pos, current_data>>
    /\ UNCHANGED <<built, doc, package, exceptCodec>>

\* parse_ooxml reads Event::Start
HandleOpenTag ==
    /\ phase = "parsing"
    /\ pos <= Len(xml)
    /\ xml[pos].kind = "Start"
    /\ LET res == handle_open_tag(xml[pos].name, current_data, xml[pos].attrs)
       IN  IF res.ok
           THEN /\ current_data' = res.data
                /\ pos' = pos + 1
                /\ UNCHANGED <<phase, result>>
           ELSE /\ result' = Panicked
                /\ phase' = "done"
                /\ UNCHANGED <<current_data, pos>>
    /\ UNCHANGED <<built, doc, via, package, xml, exceptCodec>>

\* parse_ooxml reads Event::Empty
HandleEmptyTag ==
    /\ phase = "parsing"
    /\ pos <= Len(xml)
    /\ xml[pos].kind = "Empty"
    /\ LET res == handle_empty_tag(xml[pos].name, current_data, xml[pos].attrs)
       IN  IF res.ok
           THEN /\ current_data' = res.data
                /\ pos' = pos + 1
                /\ UNCHANGED <<phase, result>>
           ELSE /\ result' = IF res.err = "panic" THEN Panicked ELSE Err(res.err)
                /\ phase' = "done"
                /\ UNCHANGED <<current_data, pos>>
    /\ UNCHANGED <<built, doc, via, package, xml, exceptCodec>>

\* parse_ooxml reads Event::Text
HandleText ==
    /\ phase = "parsing"
    /\ pos <= Len(xml)
    /\ xml[pos].kind = "Text"
    /\ LET text == unescape(xml[pos].text)
       IN  IF IsSome(text)
           THEN /\ current_data' = handle_text(current_data, Unwrap(text))
                /\ pos' = pos + 1
                /\ UNCHANGED <<phase, result>>
           ELSE /\ result' = Err("XmlError")
                /\ phase' = "done"
                /\ UNCHANGED <<current_data, pos>>
    /\ UNCHANGED <<built, doc, via, package, xml, exceptCodec>>

\* parse_ooxml reads Event::End
HandleCloseTag ==
    /\ phase = "parsing"
    /\ pos <= Len(xml)
    /\ xml[pos].kind = "End"
    /\ IF MismatchedEnd(xml, pos)
       THEN /\ result' = Err("XmlError")
            /\ phase' = "done"
            /\ UNCHANGED <<current_data, pos>>
       ELSE /\ current_data' = handle_close_tag(xml[pos].name, current_data)
            /\ pos' = pos + 1
            /\ UNCHANGED <<phase, result>>
    /\ UNCHANGED <<built, doc, via, package, xml, exceptCodec>>

\* parse_ooxml reads Event::Eof and returns Ok(current_data.document)
HandleEof ==
    /\ phase = "parsing"
    /\ pos = Len(xml) + 1
    /\ current_data' = handle_eof(current_data)
    /\ result' = Ok(current_data'.document)
    /\ phase' = "done"
    /\ UNCHANGED <<built, doc, via, package, xml, pos, exceptCodec>>

\* no document is being encoded or decoded
CodecIdle ==
    /\ built = <<>>
    /\ doc = <<>>
    /\ via = "none"
    /\ phase = "idle"
    /\ package = <<>>
    /\ xml = <<>>
    /\ pos = 0
    /\ current_data = <<>>
    /\ result = <<>>

(***************************************************************************)
(* Claims about the relationship registry                                  *)
(***************************************************************************)
IsGenerate(c) == c.op \in {"generate_rid", "Hyperlink::new"}

\* "rId" followed by the decimal numeral of k, for a one-digit k
ExpectedRid(k) == RIdPrefix \o <<DigitChars[k + 1]>>

\* C5: on a fresh registry the k-th generate_rid call (direct or through a
\* Hyperlink constructor) returns "rId" followed by k, and after n calls with
\* targets t1..tn the mapping is exactly { rIdk -> tk : 1 <= k <= n }.
C5_SequentialIds ==
    \A r \in RegIds :
        pure[r] =>
            /\ \A k \in 1..Len(gens[r]) : gens[r][k].ret = ExpectedRid(k)
            /\ DOMAIN regs[r].links = {ExpectedRid(k) : k \in 1..Len(gens[r])}
            /\ \A k \in 1..Len(gens[r]) :
                   regs[r].links[ExpectedRid(k)] = gens[r][k].target

C5_Witness ==
    \E r \in RegIds :
        /\ pure[r] /\ Len(gens[r]) = 3
        /\ last.op = "Hyperlink::new" /\ last2.op = "generate_rid"
        /\ gens[r][1].target # gens[r][2].target

\* C6: an id returned by generate_rid is never an id that was already present
\* in the registry at the time of the call.
C6_NoCollision ==
    (IsGenerate(last) /\ last.ret # Panic) =>
        last.ret \notin DOMAIN pre[last.reg].links

\* the id matches the pattern add_relationship looks for: "rId" followed by a
\* numeral that parses as a u32
FollowsRidPattern(id) ==
    /\ Len(id) > 3
    /\ <<id[1], id[2], id[3]>> = <<"r", "I", "d">>
    /\ ParseU32(SubSeq(id, 4, Len(id))) # None

\* C7: add_relationship with an id that does not match the pattern rId<number>
\* records id -> target and leaves the counter unchanged, so the next
\* generate_rid returns the id it would have returned without the add.
C7_NonMatchingAdd ==
    /\ (last.op = "add_relationship" /\ ~FollowsRidPattern(last.id)) =>
           /\ regs[last.reg].counter = pre[last.reg].counter
           /\ last.id \in DOMAIN regs[last.reg].links
           /\ regs[last.reg].links[last.id] = last.target
           /\ \A k \in DOMAIN pre[last.reg].links \ {last.id} :
                  /\ k \in DOMAIN regs[last.reg].links
                  /\ regs[last.reg].links[k] = pre[last.reg].links[k]
    /\ (/\ IsGenerate(last) /\ last2.op = "add_relationship"
        /\ last2.reg = last.reg /\ ~FollowsRidPattern(last2.id)) =>
           generate_rid(pre2[last.reg], last.target, overflow_checks).ret = last.ret

C7_Witness ==
    /\ IsGenerate(last) /\ last2.op = "add_relationship"
    /\ last2.reg = last.reg /\ ~FollowsRidPattern(last2.id)
    /\ pre2[last.reg].counter # U32Zero
    /\ last.ret # Panic

\* C8: an operation on one registry leaves the counter and the mappings of every
\* other registry unchanged, so the first id of a fresh registry is "rId1"
\* whatever was done on the others.
C8_Isolation ==
    /\ last.op # "none" => \A r \in RegIds \ {last.reg} : regs[r] = pre[r]
    /\ \A r \in RegIds :
           (pure[r] /\ Len(gens[r]) >= 1) => gens[r][1].ret = ExpectedRid(1)

C8_Witness ==
    \E r \in RegIds, o \in RegIds :
        /\ o # r
        /\ regs[o].counter # U32Zero /\ DOMAIN regs[o].links # {}
        /\ IsGenerate(last) /\ last.reg = r
        /\ pure[r] /\ Len(gens[r]) = 1

(***************************************************************************)
(* Claims about HexColor                                                   *)
(***************************************************************************)
\* exactly 6 hexadecimal digits
IsSixHex(v) ==
    /\ Len(v) = 6
    /\ \A i \in 1..Len(v) :
           v[i] \in {"0", "1", "2", "3", "4", "5", "6", "7", "8", "9",
                     "a", "b", "c", "d", "e", "f", "A", "B", "C", "D", "E", "F"}

\* C9: every HexColor produced by HexColor::new or left by a successful
\* change_value holds exactly 6 hexadecimal digits: new keeps a valid input and
\* substitutes "FFFFFF" for every other input, wrong lengths included.
C9_AlwaysSixHex ==
    /\ (hexlast.op = "new" \/ (hexlast.op = "change_value" /\ hexlast.ret = "Ok")) =>
           IsSixHex(hex.value)
    /\ hexlast.op = "new" =>
           hex.value = (IF IsSixHex(hexlast.arg) THEN hexlast.arg
                        ELSE <<"F", "F", "F", "F", "F", "F">>)

\* C10: change_value with an invalid colour code returns InvalidHex and leaves the
\* stored value unchanged; with a valid code it returns Ok and stores the code.
C10_ChangeValue ==
    hexlast.op = "change_value" =>
        IF IsSixHex(hexlast.arg)
        THEN hexlast.ret = "Ok" /\ hex.value = hexlast.arg
        ELSE hexlast.ret = "InvalidHex" /\ hex.value = hexlast.before

(***************************************************************************)
(* Claims about the codec                                                  *)
(***************************************************************************)
\* parse(generate(doc)) has returned
ParsedGenerated == phase = "done" /\ via = "generate"

\* C1: for every document built from the constructors, decoding the encoder's
\* output returns an equal document: parse(generate(d)) == d
C1_DecodeEncode == ParsedGenerated => (result.ok /\ result.document = doc)

\* C2: re-encoding is stable: generate(parse(generate(d))) is the same text as
\* generate(d)
C2_ReencodeStable == ParsedGenerated => (result.ok /\ generate(result.document) = xml)

\* run properties that use only bold, italic and a valid colour
SimpleRunProperties(rp) ==
    /\ DOMAIN rp = DOMAIN RunProperties_default
    /\ rp.underline = None
    /\ rp.size = None
    /\ rp.font = None
    /\ rp.highlight = None
    /\ IsSome(rp.color) =>
         /\ Len(Unwrap(rp.color).value) = 6
         /\ \A i \in 1..6 : Unwrap(rp.color).value[i] \in HexDigitSet

\* the calls build a document of paragraphs with default properties whose children
\* are such runs, preserve-whitespace unset, and hyperlinks made by Hyperlink::new
SimpleCalls(calls) ==
    \A i \in 1..Len(calls) :
        /\ calls[i].properties = ParagraphProperties_default
        /\ \A j \in 1..Len(calls[i].children) :
              LET c == calls[i].children[j]
              IN  \/ c[1] = "Hyperlink::new"
                  \/ /\ c[1] = "Run"
                     /\ ~c[2].space_preserve
                     /\ SimpleRunProperties(c[2].properties)

\* C3: for such a document, loading what save wrote returns an equal document:
\* load(save(d)) == d
C3_SaveLoad ==
    (phase = "done" /\ via = "save" /\ SimpleCalls(built))
        => (result.ok /\ result.document = doc)

\* what identifies a decoded child: its kind with the run's text or the hyperlink's id
ChildLabel(c) == IF c[1] = "Run" THEN <<"Run", c[2].text>> ELSE <<"Hyperlink", c[2].id>>

\* per decoded paragraph, the labels of its children in order
DecodedOrder(document) ==
    [i \in 1..Len(document.paragraphs) |->
        [j \in 1..Len(document.paragraphs[i].children) |->
            ChildLabel(document.paragraphs[i].children[j])]]

\* the number of elements open after the first i tokens
Depths(tokens) ==
    [i \in 0..Len(tokens) |->
        Cardinality({j \in 1..i : tokens[j].kind = "Start"})
        - Cardinality({j \in 1..i : tokens[j].kind = "End"})]

\* every end tag closes the element opened last, and none is left open
WellNested(tokens) ==
    LET d == Depths(tokens)
    IN  /\ d[Len(tokens)] = 0
        /\ \A i \in 1..Len(tokens) :
              tokens[i].kind = "End" =>
                  \E j \in 1..(i - 1) :
                      /\ tokens[j].kind = "Start"
                      /\ tokens[j].name = tokens[i].name
                      /\ d[j - 1] = d[i]
                      /\ \A k \in j..(i - 1) : d[k] > d[i]

IsStartOf(tokens, i, name) == tokens[i].kind = "Start" /\ tokens[i].name = name

\* the end tag of the element opened at token i, d being Depths(tokens): the
\* first token behind which fewer elements are open than behind token i (one
\* past the end of a text that leaves the element open)
EndOf(tokens, d, i) ==
    LET ends == {j \in (i + 1)..Len(tokens) : d[j] < d[i]}
    IN  IF ends = {} THEN Len(tokens) + 1
        ELSE CHOOSE j \in ends : \A k \in ends : j <= k

\* the paragraph, run or hyperlink element that token i stands in, the
\* innermost of them (0: none)
Encloser(tokens, d, i) ==
    LET open == {j \in 1..(i - 1) :
                    /\ tokens[j].kind = "Start"
                    /\ tokens[j].name \in {"w:p", "w:r", "w:hyperlink"}
                    /\ \A k \in j..(i - 1) : d[k] >= d[j]}
    IN  IF open = {} THEN 0 ELSE CHOOSE j \in open : \A k \in open : k <= j

\* the k-th smallest member of a set of numbers
Nth(S, k) == CHOOSE x \in S : Cardinality({y \in S : y < x}) = k - 1

\* the character data of tokens i..j, unescaped and joined
RECURSIVE TextBetween(_, _, _)
TextBetween(tokens, i, j) ==
    IF i > j \/ i > Len(tokens) THEN <<>>
    ELSE (IF tokens[i].kind = "Text" THEN Unwrap(unescape(tokens[i].text)) ELSE <<>>)
         \o TextBetween(tokens, i + 1, j)

\* the label of the run or hyperlink element opened at token i
ElementLabel(tokens, d, i) ==
    IF tokens[i].name = "w:hyperlink"
    THEN LET v == attr_value(tokens[i].attrs, "r:id")
         IN  <<"Hyperlink", IF IsSome(v) THEN Unwrap(v) ELSE <<>>>>
    ELSE <<"Run", TextBetween(tokens, i, EndOf(tokens, d, i))>>

\* per paragraph element of the text, in the order they open, the labels of the
\* run and hyperlink elements that are its children (those that stand in the
\* paragraph and in no run or hyperlink of it), in the order they open
ElementOrder(tokens) ==
    LET d == Depths(tokens)
        starts == {i \in 1..Len(tokens) : IsStartOf(tokens, i, "w:p")}
        children(p) ==
            {i \in (p + 1)..Len(tokens) :
                /\ IsStartOf(tokens, i, "w:hyperlink") \/ IsStartOf(tokens, i, "w:r")
                /\ Encloser(tokens, d, i) = p}
    IN  [n \in 1..Cardinality(starts) |->
            LET c == children(Nth(starts, n))
            IN  [k \in 1..Cardinality(c) |-> ElementLabel(tokens, d, Nth(c, k))]]

\* the paragraphs of the text stand in no paragraph, run or hyperlink, its
\* hyperlinks in no run or hyperlink, and its runs in no run
Unnested(tokens) ==
    LET d == Depths(tokens)
    IN  \A i \in 1..Len(tokens) :
            (tokens[i].kind = "Start" /\ tokens[i].name \in {"w:p", "w:r", "w:hyperlink"}) =>
                LET e == Encloser(tokens, d, i)
                IN  \/ e = 0
                    \/ tokens[i].name # "w:p" /\ tokens[e].name = "w:p"
                    \/ tokens[i].name = "w:r" /\ tokens[e].name = "w:hyperlink"

\* C4: for a well-nested text (every end tag closes the element opened last)
\* the children of each decoded paragraph are, in order, the run and hyperlink
\* elements of that paragraph in the input; a hyperlink element followed by a
\* run element decodes to exactly two children, Hyperlink then Run
C4_ChildrenInInputOrder ==
    (phase = "done" /\ result.ok /\ WellNested(xml))
        => DecodedOrder(result.document) = ElementOrder(xml)

\* what does hold: the children are the paragraph's elements in input order
\* where no paragraph stands in a paragraph, run or hyperlink, no hyperlink in
\* a run or hyperlink and no run in a run
C4_UnnestedChildrenInInputOrder ==
    (phase = "done" /\ result.ok /\ WellNested(xml) /\ Unnested(xml))
        => DecodedOrder(result.document) = ElementOrder(xml)

\* a paragraph written as a hyperlink element then a run element has been decoded
C4_HyperlinkThenRun ==
    /\ phase = "done"
    /\ result.ok
    /\ WellNested(xml)
    /\ Unnested(xml)
    /\ \E i \in 1..Len(result.document.paragraphs) :
          /\ Len(ElementOrder(xml)[i]) = 2
          /\ ElementOrder(xml)[i][1][1] = "Hyperlink"
          /\ ElementOrder(xml)[i][2][1] = "Run"
          /\ Len(result.document.paragraphs[i].children) = 2
          /\ result.document.paragraphs[i].children[1][1] = "Hyperlink"
          /\ result.document.paragraphs[i].children[2][1] = "Run"

\* a paragraph that stands in a run has been decoded with that run as its
\* child, a child that no element of the paragraph stands for
C4_EnclosingRunAttached ==
    /\ phase = "done"
    /\ result.ok
    /\ WellNested(xml)
    /\ \E i \in 1..Len(result.document.paragraphs) :
          /\ ElementOrder(xml)[i] = <<>>
          /\ Len(result.document.paragraphs[i].children) = 1
          /\ result.document.paragraphs[i].children[1][1] = "Run"

\* C11: a ParagraphIndentation never has hanging and first_line both set:
\* new fails with MutuallyExclusive when both are given, and no mutator call
\* produces a value with both set
C11_NeverBoth ==
    /\ ~(IsSome(ind.hanging) /\ IsSome(ind.first_line))
    /\ \A f \in I32Inputs, h \in I32Inputs :
          LET res == ParagraphIndentation_new(None, None, None, None, f, None, h, None)
          IN  res.ok = ~(IsSome(f) /\ IsSome(h))

\* the runs of a document: those that are children of a paragraph and those
\* inside its hyperlinks
RunsOfChild(c) ==
    IF c[1] = "Run" THEN {c[2]} ELSE {c[2].runs[k] : k \in 1..Len(c[2].runs)}

RunsOf(d) ==
    UNION {UNION {RunsOfChild(d.paragraphs[i].children[j]) :
                    j \in 1..Len(d.paragraphs[i].children)} :
             i \in 1..Len(d.paragraphs)}

\* C12: has_formatting() of a RunProperties and of a ParagraphProperties is
\* false exactly when the record equals its default value, and true when a
\* field differs from its default
C12_HasFormatting ==
    /\ \A r \in RunsOf(doc) :
          RunProperties_has_formatting(r.properties)
              = (r.properties # RunProperties_default)
    /\ \A i \in 1..Len(doc.paragraphs) :
          ParagraphProperties_has_formatting(doc.paragraphs[i].properties)
              = (doc.paragraphs[i].properties # ParagraphProperties_default)

\* an element of that name opens (or stands empty) directly inside the
\* outermost element of the tokens
HasChildElement(tokens, name) ==
    \E i \in 1..Len(tokens) :
        /\ tokens[i].kind \in {"Start", "Empty"}
        /\ tokens[i].name = name
        /\ Depths(tokens)[i - 1] = 1

\* C13: the encoder emits w:rPr inside a run, w:pPr inside a paragraph and
\* w:rPr inside w:pPr exactly when the corresponding properties record is
\* not the default one
C13_WrapperIffNonDefault ==
    /\ \A r \in RunsOf(doc) :
          HasChildElement(write_run(r), XmlWElement.RunProps)
              = (r.properties # RunProperties_default)
    /\ \A i \in 1..Len(doc.paragraphs) :
          LET properties == doc.paragraphs[i].properties
          IN  /\ HasChildElement(write_paragraph(doc.paragraphs[i]),
                                 XmlWElement.ParagraphProps)
                    = (properties # ParagraphProperties_default)
              /\ HasChildElement(write_paragraph_properties(properties),
                                 XmlWElement.RunProps)
                    = (/\ IsSome(properties.default_run_properties)
                       /\ Unwrap(properties.default_run_properties)
                              # RunProperties_default)

\* the text element of an encoded run carries xml:space="preserve"
HasPreserve(tokens) ==
    \E i \in 1..Len(tokens) :
        /\ tokens[i].kind = "Start"
        /\ tokens[i].name = XmlWElement.Text
        /\ \E k \in 1..Len(tokens[i].attrs) :
              tokens[i].attrs[k] = <<XmlAttr.XmlSpace, XmlAttrValue_Preserve>>

\* the decoded document has, at the place of each run of d whose preserve flag
\* is set, a run of exactly the same text
PreservedTexts(d, decoded) ==
    /\ Len(decoded.paragraphs) = Len(d.paragraphs)
    /\ \A i \in 1..Len(d.paragraphs) :
          LET cs == d.paragraphs[i].children
              ds == decoded.paragraphs[i].children
          IN  /\ Len(ds) = Len(cs)
              /\ \A j \in 1..Len(cs) :
                    /\ ds[j][1] = cs[j][1]
                    /\ (cs[j][1] = "Run" /\ cs[j][2].space_preserve)
                          => ds[j][2].text = cs[j][2].text
                    /\ cs[j][1] = "Hyperlink" =>
                          /\ Len(ds[j][2].runs) = Len(cs[j][2].runs)
                          /\ \A k \in 1..Len(cs[j][2].runs) :
                                cs[j][2].runs[k].space_preserve
                                    => ds[j][2].runs[k].text = cs[j][2].runs[k].text

\* C14: the text element of a run is written with xml:space="preserve" exactly
\* when the run's space_preserve flag is set, and decoding the encoding of a
\* document gives, for each run whose flag is set, a run with exactly the
\* original text, whitespace included
C14_PreserveWhitespace ==
    /\ \A r \in RunsOf(doc) : HasPreserve(write_run(r)) = r.space_preserve
    /\ (phase = "done" /\ via \in {"generate", "save"})
          => (result.ok /\ PreservedTexts(doc, result.document))

\* a document with a run of text " " and the flag set was encoded and decoded,
\* and the decoded run has the text " "
C14_Witness ==
    /\ phase = "done"
    /\ via = "generate"
    /\ result.ok
    /\ \E i \in 1..Len(doc.paragraphs) :
          \E j \in 1..Len(doc.paragraphs[i].children) :
              /\ doc.paragraphs[i].children[j]
                    = ChildRun(Run_new(RunProperties_default, <<" ">>, TRUE))
              /\ HasPreserve(write_run(doc.paragraphs[i].children[j][2]))
              /\ result.document.paragraphs[i].children[j][1] = "Run"
              /\ result.document.paragraphs[i].children[j][2].text = <<" ">>

\* C15: get_hint returns the name stored in the slot its hint names, a
\* HintPointsNone error when that slot is unset and an Undefined error when
\* the hint is Default; it never returns the value of another slot
C15_GetHint ==
    fontlast.op = "get_hint" =>
        /\ fonts.hint = "Default" => fontlast.ret = <<"Err", <<"Undefined">>>>
        /\ \A t \in FontType \ {"Default"} :
              fonts.hint = t =>
                  /\ fonts[FontSlot(t)] = None
                        => fontlast.ret = <<"Err", <<"HintPointsNone", t>>>>
                  /\ fonts[FontSlot(t)] # None
                        => fontlast.ret = <<"Ok", Unwrap(fonts[FontSlot(t)])>>

\* get_hint returned HintPointsNone for an unset hinted slot while another
\* slot of the set holds a name
C15_Witness ==
    /\ fontlast.op = "get_hint"
    /\ fonts.hint = "CsTheme"
    /\ fonts.cs_theme = None
    /\ fonts.cs = Some(<<"A", "r", "i", "a", "l", ".", "t", "t", "f">>)
    /\ fontlast.ret = <<"Err", <<"HintPointsNone", "CsTheme">>>>

\* load has returned for an archive
LoadedArchive == phase = "done" /\ via \in {"save", "load"} /\ package.kind = "zip"

\* C16: load returns MissingPart, and no Document, when the archive has no
\* part at DOCUMENT_XML_PATH; when it has one, load returns what the decoder
\* returns on that part's text
C16_LoadMissingPart ==
    LoadedArchive =>
        IF DOCUMENT_XML_PATH \in DOMAIN package.parts
        THEN package.parts[DOCUMENT_XML_PATH].kind # "binary"
                => result = parse_ooxml(package.parts[DOCUMENT_XML_PATH].text)
        ELSE ~result.ok /\ result.err = "MissingPart" /\ result.document = <<>>

\* what does hold: an archive without the part gives MissingPart and no
\* Document; so does one whose part by_name cannot open; a part that is no
\* UTF-8 text gives IoError; and a part that is a text gives what the decoder
\* returns on it
C16_LoadOutcomes ==
    LoadedArchive =>
        LET parts == package.parts
        IN  CASE DOCUMENT_XML_PATH \notin DOMAIN parts -> result = Err("MissingPart")
              [] parts[DOCUMENT_XML_PATH].kind = "encrypted" -> result = Err("MissingPart")
              [] parts[DOCUMENT_XML_PATH].kind = "binary" -> result = Err("IoError")
              [] OTHER -> result = parse_ooxml(parts[DOCUMENT_XML_PATH].text)

\* load has returned MissingPart for an archive that holds a document.xml, but
\* not at the path of the main part
C16_MissingPartReturned ==
    /\ LoadedArchive
    /\ via = "load"
    /\ "document.xml" \in DOMAIN package.parts
    /\ DOCUMENT_XML_PATH \notin DOMAIN package.parts
    /\ result = Err("MissingPart")

\* load has returned MissingPart for an archive whose main document part is
\* there and encrypted
C16_PresentPartMissing ==
    /\ LoadedArchive
    /\ DOCUMENT_XML_PATH \in DOMAIN package.parts
    /\ package.parts[DOCUMENT_XML_PATH].kind = "encrypted"
    /\ result = Err("MissingPart")

\* where there is no file, or a file that is no archive, load returns IoError
\* or ZipError
C16_NoArchive ==
    (phase = "done" /\ via = "load" /\ package.kind # "zip") =>
        result = Err(IF package.kind = "none" THEN "IoError" ELSE "ZipError")

\* the name of the element that token i stands directly in ("" at top level)
ParentName(tokens, i) ==
    LET d == Depths(tokens)
        opens == {j \in 1..(i - 1) : tokens[j].kind = "Start" /\ d[j] = d[i - 1]
                                      /\ \A k \in j..(i - 1) : d[k] >= d[j]}
    IN  IF opens = {} THEN ""
        ELSE tokens[CHOOSE j \in opens : \A k \in opens : k <= j].name

\* token i is a size or character-spacing element of a run's properties whose
\* value is no u32
NonNumericRunAttribute(tokens, i) ==
    /\ tokens[i].kind = "Empty"
    /\ tokens[i].name \in {"w:sz", "w:spacing"}
    /\ ParentName(tokens, i) = "w:rPr"
    /\ \E k \in 1..Len(tokens[i].attrs) :
          /\ tokens[i].attrs[k][1] = "w:val"
          /\ IsSome(unescape(tokens[i].attrs[k][2]))
          /\ ParseU32(Unwrap(unescape(tokens[i].attrs[k][2]))) = None

\* token i is an indentation element of a paragraph's properties with an
\* attribute whose value is no i32
NonNumericIndentation(tokens, i) ==
    /\ tokens[i].kind = "Empty"
    /\ tokens[i].name = "w:ind"
    /\ ParentName(tokens, i) = "w:pPr"
    /\ \E k \in 1..Len(tokens[i].attrs) :
          /\ tokens[i].attrs[k][1] \in {IndFinds[f][1] : f \in 1..Len(IndFinds)}
          /\ IsSome(unescape(tokens[i].attrs[k][2]))
          /\ ParseI32(Unwrap(unescape(tokens[i].attrs[k][2]))) = None

\* C17: a text with a non-numeric size, character-spacing or indentation
\* attribute makes decode return a numeric-parse error and no Document
C17_NumericParseError ==
    (/\ phase = "done"
     /\ \E i \in 1..Len(xml) :
           NonNumericRunAttribute(xml, i) \/ NonNumericIndentation(xml, i))
        => (result = Err("NumParseError"))

\* the event is a start, empty or end tag that no arm of its handler matches
Unrecognized(event) ==
    \/ event.kind = "Start" /\ event.name \notin OpenTagNames
    \/ event.kind = "Empty" /\ event.name \notin EmptyTagNames
    \/ event.kind = "End" /\ event.name \notin CloseTagNames

\* C18: an open, self-closing or close event with an unrecognized marker name
\* leaves the whole CurrentData unchanged and does not end the decode
C18_UnrecognizedSkipped ==
    [][(phase = "parsing" /\ pos <= Len(xml) /\ Unrecognized(xml[pos]))
          => (/\ current_data' = current_data
              /\ phase' = "parsing"
              /\ pos' = pos + 1
              /\ result' = result)]_vars

\* an unrecognized start tag was just read inside a run of a hyperlink, with
\* the run's properties read before it
C18_Witness ==
    /\ phase = "parsing"
    /\ pos > 1
    /\ xml[pos - 1].kind = "Start"
    /\ Unrecognized(xml[pos - 1])
    /\ IsSome(current_data.paragraph)
    /\ IsSome(current_data.hyperlink)
    /\ IsSome(current_data.run)
    /\ Unwrap(current_data.run).text # <<>>

\* C19: callers that share a registry run generate_rid one at a time, so the
\* calls return distinct ids, the k-th call to return gets rId<k> (none is
\* skipped), and each id is recorded with the target of its call
C19_ExclusiveGenerate ==
    /\ \A i \in 1..Len(returned) : \A j \in 1..Len(returned) :
          i # j => returned[i].ret # returned[j].ret
    /\ \A k \in 1..Len(returned) :
          /\ returned[k].ret = ExpectedRid(k)
          /\ returned[k].ret \in DOMAIN shared.links
          /\ shared.links[returned[k].ret] = returned[k].target

\* three calls by three different callers have returned
C19_Witness ==
    /\ Len(returned) = 3
    /\ {returned[k].caller : k \in 1..3} = Callers
    /\ returned[3].ret = ExpectedRid(3)
    /\ borrow = 0

\* C20: in every state of a decode, the end-of-input handler leaves the same
\* Document as the close handler of the paragraph marker would: the open
\* hyperlink with its runs and its pending run, or the open bare run, is
\* attached to the paragraph and the paragraph is pushed
C20_EofAsCloseParagraph ==
    phase = "parsing" =>
        handle_eof(current_data).document =
            handle_close_tag("w:p", current_data).document

\* the part of C20 the handlers agree on: with no hyperlink open, the bare
\* run is attached and the paragraph pushed by both
C20_EofBareRun ==
    (phase = "parsing" /\ ~IsSome(current_data.hyperlink)) =>
        handle_eof(current_data) = handle_close_tag("w:p", current_data)

\* the input ends inside the second run of a hyperlink
C20_EofInsideHyperlink ==
    /\ phase = "parsing"
    /\ pos = Len(xml) + 1
    /\ IsSome(current_data.paragraph)
    /\ IsSome(current_data.hyperlink)
    /\ Len(Unwrap(current_data.hyperlink).runs) = 1
    /\ IsSome(current_data.run)

\* the index of the start tag of the element that token i stands directly in
\* (0 at top level)
ParentIndex(tokens, i) ==
    LET d == Depths(tokens)
        opens == {j \in 1..(i - 1) : tokens[j].kind = "Start" /\ d[j] = d[i - 1]
                                      /\ \A k \in j..(i - 1) : d[k] >= d[j]}
    IN  IF opens = {} THEN 0 ELSE CHOOSE j \in opens : \A k \in opens : k <= j

\* token i is the start tag of the run-properties element of a run
IsRunPropertiesOpen(tokens, i) ==
    IsStartOf(tokens, i, "w:rPr") /\ ParentName(tokens, i) = "w:r"

\* token i is the empty element `name` directly inside the run-properties
\* element of a run
IsRunMarker(tokens, i, name) ==
    /\ tokens[i].kind = "Empty"
    /\ tokens[i].name = name
    /\ ParentIndex(tokens, i) > 0
    /\ IsRunPropertiesOpen(tokens, ParentIndex(tokens, i))

\* the decoder has just read token pos - 1 and goes on
JustRead(i) == phase = "parsing" /\ pos = i + 1

\* what C21 says of the token just read: the run-properties start tag of a run
\* enters run-properties scope, and a bold or italic marker inside it sets the
\* property of the run in progress
RunScopeEntered ==
    \A i \in 1..Len(xml) :
        JustRead(i) =>
            /\ IsRunPropertiesOpen(xml, i) => current_data.in_run_properties
            /\ IsRunMarker(xml, i, "w:b") =>
                   /\ IsSome(current_data.run_properties)
                   /\ Unwrap(current_data.run_properties).bold
            /\ IsRunMarker(xml, i, "w:i") =>
                   /\ IsSome(current_data.run_properties)
                   /\ Unwrap(current_data.run_properties).italic

\* a paragraph-properties element was opened among the first i tokens
SeenParagraphProperties(tokens, i) ==
    \E j \in 1..i : IsStartOf(tokens, j, "w:pPr")

\* C21: paragraph-properties scope ends with the paragraph-properties element:
\* in every run, also one that follows a closed paragraph-properties element,
\* the run-properties start tag enters run-properties scope and the bold and
\* italic markers inside it set that run's own properties
C21_ParagraphScopeEnds == RunScopeEntered

\* the part of C21 that holds: as long as the text has opened no
\* paragraph-properties element, run-properties scope is entered
C21_BeforeParagraphProperties ==
    SeenParagraphProperties(xml, pos - 1) \/ RunScopeEntered

\* token i is the empty element `name` directly inside the paragraph-properties
\* element of a paragraph
IsParagraphMarker(tokens, i, name) ==
    /\ tokens[i].kind = "Empty"
    /\ tokens[i].name = name
    /\ ParentName(tokens, i) = "w:pPr"
    /\ ParentName(tokens, ParentIndex(tokens, i)) = "w:p"

\* the number of paragraph start tags among the first i tokens
ParagraphOrdinal(tokens, i) ==
    Cardinality({j \in 1..i : IsStartOf(tokens, j, "w:p")})

\* the properties the decoder built for the paragraph in progress, where the
\* paragraph itself must carry them
BuiltProperties(data) ==
    IF IsSome(data.paragraph_properties) THEN Unwrap(data.paragraph_properties)
    ELSE ParagraphProperties_default

\* C22: the paragraph-property markers of a paragraph's properties element show
\* in the properties of that paragraph in the decoded Document: keep-with-next
\* given without a value sets keep_next, an outline level sets outline_level,
\* an indentation element sets ind
C22_ParagraphPropertiesDecoded ==
    (phase = "done" /\ result.ok /\ WellNested(xml) /\ Unnested(xml)) =>
        \A i \in 1..Len(xml) :
            LET n == ParagraphOrdinal(xml, i)
                properties == result.document.paragraphs[n].properties
            IN  /\ (IsParagraphMarker(xml, i, "w:keepNext") /\ xml[i].attrs = <<>>)
                       => properties.keep_next
                /\ IsParagraphMarker(xml, i, "w:outlineLvl")
                       => IsSome(properties.outline_level)
                /\ IsParagraphMarker(xml, i, "w:ind") => IsSome(properties.ind)

\* what does hold in place of C22: the markers reach the scratch
\* ParagraphProperties of the decoder, which no handler copies into a paragraph
C22_ScratchOnly ==
    /\ \A i \in 1..Len(xml) :
          (JustRead(i) /\ IsParagraphMarker(xml, i, "w:keepNext")
              /\ xml[i].attrs = <<>>) => BuiltProperties(current_data).keep_next
    /\ (phase = "done" /\ result.ok) =>
          \A n \in 1..Len(result.document.paragraphs) :
              result.document.paragraphs[n].properties = ParagraphProperties_default

\* the paragraphs the decoder has started: those pushed and the one in progress
StartedParagraphs(data) ==
    Len(data.document.paragraphs) + (IF IsSome(data.paragraph) THEN 1 ELSE 0)

\* between two states of the decoder the pushed paragraphs stay as they are, and
\* at most one is added behind them: the paragraph that was in progress, with
\* the children it had then in front of any it has gained
PushedOnce(before, after) ==
    LET old == before.document.paragraphs
        new == after.document.paragraphs
    IN  \/ new = old /\ (IsSome(before.paragraph) => IsSome(after.paragraph))
        \/ /\ IsSome(before.paragraph)
           /\ Len(new) = Len(old) + 1
           /\ SubSeq(new, 1, Len(old)) = old
           /\ LET p == Unwrap(before.paragraph)
                  q == new[Len(new)]
              IN  /\ q.properties = p.properties
                  /\ Len(q.children) >= Len(p.children)
                  /\ SubSeq(q.children, 1, Len(p.children)) = p.children

\* C23: a decode that meets no error holds one Paragraph per paragraph start
\* tag read so far, pushed or in progress, and returns that many; every step
\* leaves the pushed paragraphs in place and pushes the paragraph in progress
\* at most once, behind them, so none is lost, duplicated or reordered
C23_OneParagraphPerMarker ==
    /\ [](/\ phase = "parsing" =>
                StartedParagraphs(current_data) = ParagraphOrdinal(xml, pos - 1)
          /\ (phase = "done" /\ result.ok) =>
                Len(result.document.paragraphs) = ParagraphOrdinal(xml, Len(xml)))
    /\ [][phase = "parsing" => PushedOnce(current_data, current_data')]_vars

\* the decode of a text that opens paragraphs inside open paragraphs is done:
\* two were pushed by the start tag that followed them, two by their end tag
C23_Witness ==
    /\ phase = "done"
    /\ result.ok
    /\ ~Unnested(xml)
    /\ ParagraphOrdinal(xml, Len(xml)) = 4
    /\ Len(result.document.paragraphs) = 4
    /\ Len(result.document.paragraphs[1].children) = 0
    /\ Len(result.document.paragraphs[2].children) = 1

\* the ordinal of the paragraph that is open when token i is read: the one
\* started last, unless a paragraph end tag has come since (0)
ParagraphInProgress(tokens, i) ==
    LET starts == {j \in 1..(i - 1) : IsStartOf(tokens, j, "w:p")}
    IN  IF starts = {} THEN 0
        ELSE LET j == CHOOSE x \in starts : \A y \in starts : y <= x
             IN  IF \E k \in (j + 1)..(i - 1) :
                        tokens[k].kind = "End" /\ tokens[k].name = "w:p"
                 THEN 0
                 ELSE ParagraphOrdinal(tokens, j)

\* the text of the run opened at token i: the character data up to the next
\* run, hyperlink or paragraph tag
RunTextAt(tokens, i) ==
    LET stops == {j \in (i + 1)..Len(tokens) :
                     tokens[j].name \in {"w:r", "w:hyperlink", "w:p"}}
        until == IF stops = {} THEN Len(tokens)
                 ELSE (CHOOSE x \in stops : \A y \in stops : x <= y) - 1
    IN  TextBetween(tokens, i, until)

\* how many runs opened while paragraph n was in progress have the text t
OpenedRuns(tokens, n, t) ==
    Cardinality({i \in 1..Len(tokens) :
                    /\ IsStartOf(tokens, i, "w:r")
                    /\ ParagraphInProgress(tokens, i) = n
                    /\ RunTextAt(tokens, i) = t})

\* how many runs of the paragraph p, its own and those of its hyperlinks, have
\* the text t
DecodedRuns(p, t) ==
    Cardinality({j \in 1..Len(p.children) :
                    p.children[j][1] = "Run" /\ p.children[j][2].text = t})
    + Cardinality(UNION {
          {<<j, k>> : k \in {x \in 1..Len(p.children[j][2].runs) :
                                p.children[j][2].runs[x].text = t}} :
          j \in {y \in 1..Len(p.children) : p.children[y][1] = "Hyperlink"} })

\* the run texts of a text
RunTexts(tokens) ==
    {RunTextAt(tokens, i) : i \in {j \in 1..Len(tokens) : IsStartOf(tokens, j, "w:r")}}

\* every run opened in a paragraph is in that paragraph of the document, once
RunsKept(tokens, document) ==
    \A n \in 1..Len(document.paragraphs) : \A t \in RunTexts(tokens) :
        DecodedRuns(document.paragraphs[n], t) = OpenedRuns(tokens, n, t)

\* C24: when the decode of a text has ended, each run opened while a paragraph
\* was in progress is found exactly once in the Document, in that paragraph,
\* as its child or inside one of its hyperlinks
C24_RunsKept ==
    (phase = "done" /\ result.ok) => RunsKept(xml, result.document)

\* the part of C24 that holds: texts whose end tags are all there and whose
\* paragraphs, runs and hyperlinks do not stand inside their own kind
C24_RunsKeptUnnested ==
    (phase = "done" /\ result.ok /\ WellNested(xml) /\ Unnested(xml))
        => RunsKept(xml, result.document)

\* the decoder is about to be handed token pos as an event of this kind and name
NextEvent(kind, name) ==
    /\ phase = "parsing"
    /\ pos <= Len(xml)
    /\ xml[pos].kind = kind
    /\ xml[pos].name = name
    /\ ~MismatchedEnd(xml, pos)

\* the run in progress with the run properties accumulated for it
FinishedRun(data) ==
    IF IsSome(data.run_properties)
    THEN [Unwrap(data.run) EXCEPT !.properties = Unwrap(data.run_properties)]
    ELSE Unwrap(data.run)

\* C25: a close run-marker event with a run in progress gives the run the
\* accumulated run properties, appends it to the runs of the open hyperlink, or
\* with no hyperlink open to the children of the current paragraph, touches
\* nothing else of the two, and clears the run slot
C25_CloseRun ==
    [][(NextEvent("End", "w:r") /\ IsSome(current_data.run)) =>
          LET r == FinishedRun(current_data)
          IN  /\ current_data'.run = None
              /\ current_data'.document = current_data.document
              /\ IF IsSome(current_data.hyperlink)
                 THEN /\ current_data'.hyperlink =
                            Some([Unwrap(current_data.hyperlink)
                                     EXCEPT !.runs = Append(@, r)])
                      /\ current_data'.paragraph = current_data.paragraph
                 ELSE /\ current_data'.hyperlink = None
                      /\ IsSome(current_data.paragraph) =>
                            current_data'.paragraph =
                                Some([Unwrap(current_data.paragraph)
                                         EXCEPT !.children = Append(@, ChildRun(r))])]_vars

\* the end tag of an italic run of a hyperlink has just been read: the run is
\* the last of the hyperlink's runs and the paragraph has not gained a child
C25_Witness ==
    /\ phase = "parsing"
    /\ pos > 1
    /\ xml[pos - 1].kind = "End"
    /\ xml[pos - 1].name = "w:r"
    /\ current_data.run = None
    /\ IsSome(current_data.hyperlink)
    /\ IsSome(current_data.paragraph)
    /\ LET runs == Unwrap(current_data.hyperlink).runs
       IN  /\ Len(runs) > 0
           /\ runs[Len(runs)].properties.italic
           /\ runs[Len(runs)].text # <<>>
    /\ Unwrap(current_data.paragraph).children = <<>>

\* the runs the decoder has attached to a container: those of the document,
\* of the paragraph in progress and of the hyperlink in progress
AttachedRuns(data) ==
    RunsOf(data.document)
    \cup (IF IsSome(data.paragraph)
          THEN UNION {RunsOfChild(Unwrap(data.paragraph).children[j]) :
                        j \in 1..Len(Unwrap(data.paragraph).children)}
          ELSE {})
    \cup (IF IsSome(data.hyperlink)
          THEN {Unwrap(data.hyperlink).runs[k] :
                  k \in 1..Len(Unwrap(data.hyperlink).runs)}
          ELSE {})

\* the step attaches no run but the one in progress with the run properties
\* accumulated for it
AttachesFinishedRun ==
    (phase = "parsing" /\ IsSome(current_data.run)) =>
        \A r \in AttachedRuns(current_data') \ AttachedRuns(current_data) :
            r = FinishedRun(current_data)

\* C26: whichever event attaches the run in progress to its container (close
\* run, close hyperlink, a following open run or open hyperlink, close
\* paragraph, end of input), the run it attaches carries the run properties
\* accumulated for it
C26_RunCarriesProperties == [][AttachesFinishedRun]_vars

\* the part of C26 that holds: the runs attached by a close run or close
\* hyperlink event
C26_AttachedByClose ==
    [][(NextEvent("End", "w:r") \/ NextEvent("End", "w:hyperlink"))
          => AttachesFinishedRun]_vars

\* C27: once a close paragraph-marker event has been handled, whatever the
\* state it came in, no paragraph, hyperlink or run is in progress
C27_ScratchCleared ==
    (phase = "parsing" /\ pos > 1 /\ xml[pos - 1].kind = "End"
        /\ xml[pos - 1].name = "w:p")
        => /\ current_data.paragraph = None
           /\ current_data.hyperlink = None
           /\ current_data.run = None

\* a paragraph end tag has just been read that found a hyperlink and its run
\* still open: both are in the pushed paragraph and the slots are empty
C27_Witness ==
    /\ phase = "parsing"
    /\ pos > 1
    /\ xml[pos - 1].kind = "End"
    /\ xml[pos - 1].name = "w:p"
    /\ current_data.hyperlink = None
    /\ current_data.run = None
    /\ LET ps == current_data.document.paragraphs
       IN  /\ Len(ps) > 0
           /\ Len(ps[Len(ps)].children) = 1
           /\ ps[Len(ps)].children[1][1] = "Hyperlink"
           /\ Len(ps[Len(ps)].children[1][2].runs) = 1
           /\ \A k \in 1..(pos - 1) :
                 ~(xml[k].kind = "End" /\ xml[k].name \in {"w:hyperlink", "w:r"})

\* the value of the reference-id attribute of an event, empty where it has none
ReferenceId(event) ==
    LET ks == {k \in 1..Len(event.attrs) : event.attrs[k][1] = "r:id"}
        v == unescape(event.attrs[CHOOSE k \in ks : \A j \in ks : k <= j][2])
    IN  IF ks = {} \/ v = None THEN <<>> ELSE Unwrap(v)

\* what an open hyperlink-marker event does to the decoder's state according
\* to C28
OpensHyperlink ==
    /\ current_data'.hyperlink =
           Some([id |-> ReferenceId(xml[pos]), runs |-> <<>>])
    /\ current_data'.run = None
    /\ current_data'.document = current_data.document
    /\ IsSome(current_data.paragraph) =>
           /\ IsSome(current_data'.paragraph)
           /\ LET old == Unwrap(current_data.paragraph).children
                  new == Unwrap(current_data'.paragraph).children
              IN  IF IsSome(current_data.run) /\ current_data.hyperlink = None
                  THEN /\ Len(new) = Len(old) + 1
                       /\ SubSeq(new, 1, Len(old)) = old
                       /\ new[Len(new)][1] = "Run"
                       /\ new[Len(new)][2].text = Unwrap(current_data.run).text
                  ELSE IsSome(current_data.run) \/ new = old

\* C28: an open hyperlink-marker event appends a pending bare run to the
\* children of the current paragraph and clears the run slot, leaves the
\* children alone when no run is pending, and starts a Hyperlink that has no
\* runs and the id of the event's reference-id attribute
C28_OpenHyperlink ==
    [][NextEvent("Start", "w:hyperlink") => OpensHyperlink]_vars

\* what does hold: the same for every hyperlink tag that has no attribute
\* twice before or at its reference-id attribute, and hence for every tag of
\* well-formed XML
C28_OpenHyperlinkUnduplicated ==
    [][(NextEvent("Start", "w:hyperlink")
          /\ \A i \in 1..Len(xml[pos].attrs) :
                Duplicated(xml[pos].attrs, i) =>
                    \E j \in 1..(i - 1) : xml[pos].attrs[j][1] = "r:id")
        => OpensHyperlink]_vars

\* a hyperlink start tag with an attribute twice before its reference id has
\* just been read: the decoder has panicked
C28_DuplicatedAttribute ==
    /\ phase = "done"
    /\ result = Panicked
    /\ pos <= Len(xml)
    /\ xml[pos].kind = "Start"
    /\ xml[pos].name = "w:hyperlink"
    /\ \E i \in 1..Len(xml[pos].attrs) : Duplicated(xml[pos].attrs, i)

\* a hyperlink start tag has just been read while a bare run with text was
\* pending behind an earlier child: the run is the paragraph's last child and
\* the new hyperlink has the id of the tag and no runs
C28_Witness ==
    /\ phase = "parsing"
    /\ pos > 1
    /\ IsStartOf(xml, pos - 1, "w:hyperlink")
    /\ ParentName(xml, pos - 1) = "w:r"
    /\ current_data.run = None
    /\ current_data.hyperlink = Some([id |-> <<"r", "I", "d", "2">>, runs |-> <<>>])
    /\ IsSome(current_data.paragraph)
    /\ LET cs == Unwrap(current_data.paragraph).children
       IN  /\ Len(cs) = 2
           /\ cs[1] = ChildRun(Run_from(<<"k">>))
           /\ cs[2][1] = "Run"
           /\ cs[2][2].text = <<"a">>

\* token i is the empty element `name` directly inside a run-properties element
\* that stands directly inside a paragraph-properties element
IsDefaultRunMarker(tokens, i, name) ==
    /\ tokens[i].kind = "Empty"
    /\ tokens[i].name = name
    /\ ParentName(tokens, i) = "w:rPr"
    /\ ParentName(tokens, ParentIndex(tokens, i)) = "w:pPr"

\* what C29 says of a step taken in paragraph-properties scope: the
\* run-properties start tag sets the default run properties of the paragraph
\* properties and leaves run-properties scope unentered, and a bold or italic
\* marker inside it leaves the run in progress and its properties as they are
RedirectedToParagraph ==
    /\ (NextEvent("Start", "w:rPr") /\ current_data.in_paragraph_properties) =>
          /\ ~current_data'.in_run_properties
          /\ current_data'.run = current_data.run
          /\ current_data'.run_properties = current_data.run_properties
          /\ IsSome(current_data.paragraph_properties) =>
                current_data'.paragraph_properties =
                    Some([Unwrap(current_data.paragraph_properties)
                             EXCEPT !.default_run_properties =
                                        Some(RunProperties_default)])
    /\ \A name \in {"w:b", "w:i"} :
          (NextEvent("Empty", name) /\ IsDefaultRunMarker(xml, pos, name)
              /\ current_data.in_paragraph_properties) =>
              /\ current_data'.run = current_data.run
              /\ current_data'.run_properties = current_data.run_properties

\* C29: in paragraph-properties scope an open run-properties-marker does not
\* enter run-properties scope but sets the paragraph's default run properties,
\* and the property markers nested in it do not change the properties of the
\* run in progress
C29_ParagraphScopePrecedence == [][RedirectedToParagraph]_vars

\* the part of C29 that holds: steps taken while run-properties scope is not
\* already open
C29_OutsideRunScope ==
    [][(phase = "parsing" /\ current_data.in_run_properties)
          \/ RedirectedToParagraph]_vars

\* the values of the value attribute that switch a boolean marker off
OffValues == {<<"o", "f", "f">>, <<"0">>, <<"f", "a", "l", "s", "e">>}

\* the event carries a value attribute that switches the marker off
SwitchedOff(event) ==
    \E k \in 1..Len(event.attrs) :
        /\ event.attrs[k][1] = "w:val"
        /\ \A j \in 1..(k - 1) : event.attrs[j][1] # "w:val"
        /\ unescape(event.attrs[k][2]) \in {Some(v) : v \in OffValues}

\* the decoder has just read the keep-with-next marker at token i in
\* paragraph-properties scope
KeepNextRead(i) ==
    /\ JustRead(i)
    /\ xml[i].kind = "Empty"
    /\ xml[i].name = "w:keepNext"
    /\ in_paragraph_scope(current_data)

\* C30: after a self-closing boolean paragraph-property marker is handled in
\* paragraph-properties scope (keep-with-next stands for the markers, whose
\* arms are copies of one another), its flag is false if the marker's value
\* attribute is "off", "0" or "false", and true if the attribute has another
\* value or is absent
C30_BooleanMarker ==
    \A i \in 1..Len(xml) :
        KeepNextRead(i) =>
            (Unwrap(current_data.paragraph_properties).keep_next = ~SwitchedOff(xml[i]))

\* the part of C30 that holds: the flag is true after a marker that is not
\* switched off, and false after a switched-off marker that is the first
\* keep-with-next marker of its paragraph
C30_FirstMarker ==
    \A i \in 1..Len(xml) :
        (/\ KeepNextRead(i)
         /\ SwitchedOff(xml[i]) =>
               \A j \in 1..(i - 1) :
                   (xml[j].kind = "Empty" /\ xml[j].name = "w:keepNext")
                       => \E k \in (j + 1)..(i - 1) : IsStartOf(xml, k, "w:p"))
            => (Unwrap(current_data.paragraph_properties).keep_next
                   = ~SwitchedOff(xml[i]))

\* C31: a text event appends its unescaped text to the text of the run in
\* progress and changes nothing else of the decoder state; with no run in
\* progress it changes nothing at all
C31_TextEvent ==
    [][(NextEvent("Text", "") /\ IsSome(unescape(xml[pos].text))) =>
          IF IsSome(current_data.run)
          THEN /\ IsSome(current_data'.run)
               /\ Unwrap(current_data'.run).text =
                      Unwrap(current_data.run).text \o Unwrap(unescape(xml[pos].text))
               /\ [current_data' EXCEPT !.run = current_data.run] = current_data
               /\ [Unwrap(current_data'.run) EXCEPT !.text = <<>>] =
                      [Unwrap(current_data.run) EXCEPT !.text = <<>>]
          ELSE current_data' = current_data]_vars

\* the second text element of a run has just been read, after white space that
\* stood between the two: the run has the three texts in the order read
C31_Witness ==
    /\ phase = "parsing"
    /\ pos > 4
    /\ xml[pos - 1].kind = "Text"
    /\ xml[pos - 3].kind = "Text"
    /\ IsSome(current_data.run)
    /\ Unwrap(current_data.run).text = <<"a", " ", "b", "&", "c">>
    /\ IsSome(current_data.paragraph)
    /\ Unwrap(current_data.paragraph).children = <<>>

\* text has just been read with no run in progress, inside a paragraph that
\* has a child
C31_DroppedText ==
    /\ phase = "parsing"
    /\ pos > 1
    /\ xml[pos - 1].kind = "Text"
    /\ current_data.run = None
    /\ IsSome(current_data.paragraph)
    /\ Len(Unwrap(current_data.paragraph).children) = 1

\* the decoded document has, at the place of each run of d, a run with the
\* same space_preserve flag
PreservedFlags(d, decoded) ==
    /\ Len(decoded.paragraphs) = Len(d.paragraphs)
    /\ \A i \in 1..Len(d.paragraphs) :
          LET cs == d.paragraphs[i].children
              ds == decoded.paragraphs[i].children
          IN  /\ Len(ds) = Len(cs)
              /\ \A j \in 1..Len(cs) :
                    /\ ds[j][1] = cs[j][1]
                    /\ cs[j][1] = "Run"
                          => ds[j][2].space_preserve = cs[j][2].space_preserve
                    /\ cs[j][1] = "Hyperlink" =>
                          /\ Len(ds[j][2].runs) = Len(cs[j][2].runs)
                          /\ \A k \in 1..Len(cs[j][2].runs) :
                                ds[j][2].runs[k].space_preserve
                                    = cs[j][2].runs[k].space_preserve

\* C32: a decoded run has its space_preserve flag set exactly when its text
\* element carried xml:space="preserve", so the flag of every run of a
\* document survives encoding followed by decoding
C32_PreserveFlag ==
    (phase = "done" /\ via \in {"generate", "save"} /\ result.ok)
        => PreservedFlags(doc, result.document)

\* what does hold: no decoded run has the flag set, whatever the text said
C32_FlagNeverSet ==
    (phase = "done" /\ result.ok)
        => \A r \in RunsOf(result.document) : ~r.space_preserve

\* C33: the encoder writes the element of an optional property, with its
\* attributes, when the property is Some and nothing when it is None; here
\* for the font set of a run's properties
C33_OptionalEmitted ==
    /\ write_fonts(None) = <<>>
    /\ Len(write_fonts(Some(fonts))) = 1
    /\ write_fonts(Some(fonts))[1].kind = "Empty"
    /\ write_fonts(Some(fonts))[1].name = XmlWElement.Fonts
    /\ write_fonts(Some(fonts))[1].attrs # <<>>

\* what does hold: a font set is written exactly when its hint names a slot
\* that is set, and then with the attribute of that slot alone
C33_HintedFontEmitted ==
    /\ write_fonts(None) = <<>>
    /\ (write_fonts(Some(fonts)) # <<>>)
          = (fonts.hint # "Default" /\ IsSome(fonts[FontSlot(fonts.hint)]))
    /\ (write_fonts(Some(fonts)) # <<>>) =>
          /\ Len(write_fonts(Some(fonts))) = 1
          /\ Len(write_fonts(Some(fonts))[1].attrs) = 1

\* the flags and the other optional properties of the runs the encoder is
\* given are written exactly when true or Some
C33_RunPropertiesEmitted ==
    phase # "idle" => \A r \in RunsOf(doc) :
        LET p == r.properties
            w == write_run_properties(p)
        IN  /\ HasChildElement(w, XmlWElement.Bold) = p.bold
            /\ HasChildElement(w, XmlWElement.Italic) = p.italic
            /\ HasChildElement(w, XmlWElement.Underline) = IsSome(p.underline)
            /\ HasChildElement(w, XmlWElement.Highlight) = IsSome(p.highlight)
            /\ HasChildElement(w, XmlWElement.Color) = IsSome(p.color)
            /\ HasChildElement(w, XmlWElement.Size) = IsSome(p.size)
            /\ HasChildElement(w, XmlWElement.Fonts)
                  = (IsSome(p.font) /\ write_fonts(p.font) # <<>>)
            /\ HasChildElement(w, XmlWElement.Strike) = undeclared_property(p, "strike")
            /\ HasChildElement(w, XmlWElement.DStrike) = undeclared_property(p, "dstrike")
            /\ HasChildElement(w, XmlWElement.VertAlign)
                  = IsSome(undeclared_property(p, "valign"))
            /\ HasChildElement(w, XmlWElement.Spacing)
                  = IsSome(undeclared_property(p, "spacing"))

\* C34: for each variant of each enum that has a From and a Display, parsing
\* the string printed for the variant gives the variant back
C34_Bidirectional ==
    (wire.op = "from" /\ IsSome(wire.of)) => wire.variant = Unwrap(wire.of)

\* what does hold: the same for every enum but StripePatternValues
C34_BidirectionalButStripes ==
    (wire.op = "from" /\ IsSome(wire.of) /\ wire.enum # "StripePatternValues")
        => wire.variant = Unwrap(wire.of)

\* and for the variants of StripePatternValues whose two strings agree
C34_StripesThatAgree ==
    (wire.op = "from" /\ IsSome(wire.of) /\ wire.enum = "StripePatternValues"
       /\ Unwrap(wire.of) \notin {"HorizontalCross", "DiagonalCross", "ThinHorzontal",
                                  "ThinHorizontalCross", "ThinDiagCross"})
        => wire.variant = Unwrap(wire.of)

\* token i is a marker of run properties or of paragraph properties, in its
\* place, whose value is no colour code or no value of its enum
InvalidCodeOrEnum(tokens, i) ==
    \/ /\ IsRunMarker(tokens, i, "w:color")
       /\ IsSome(attr_value(tokens[i].attrs, "w:val"))
       /\ check_hex(Unwrap(attr_value(tokens[i].attrs, "w:val"))) # "Ok"
    \/ /\ IsParagraphMarker(tokens, i, "w:textboxTightWrap")
       /\ IsSome(attr_value(tokens[i].attrs, "w:val"))
       /\ \A k \in 1..Len(ParagraphTBoxTightWrapValues.from) :
              ParagraphTBoxTightWrapValues.from[k][1]
                  # Unwrap(attr_value(tokens[i].attrs, "w:val"))

\* C35: but for unknown markers, absent boolean values and a non-numeric
\* outline level, an invalid attribute value of a recognized marker makes the
\* decode fail; here for the size and the character spacing of a run, a colour
\* code and a value of an enum
C35_InvalidValueFails ==
    (/\ phase = "done"
     /\ via = "parse"
     /\ \E i \in 1..Len(xml) :
           NonNumericRunAttribute(xml, i) \/ InvalidCodeOrEnum(xml, i))
        => ~result.ok

\* what does hold: the marker with the invalid colour code or enum value is
\* read without an error, and the fallback colour or the `_` variant is taken
C35_ValueSubstituted ==
    [][\A i \in 1..Len(xml) :
          (JustRead(i) /\ InvalidCodeOrEnum(xml, i)) =>
              /\ phase' = "parsing"
              /\ IsRunMarker(xml, i, "w:color") =>
                    Unwrap(current_data'.run_properties).color = Some(HexColor_default)
              /\ IsParagraphMarker(xml, i, "w:textboxTightWrap") =>
                    Unwrap(current_data'.paragraph_properties).textbox_tight_wrap
                        = Some(ParagraphTBoxTightWrap_new("None"))]_vars

\* the fields of a FontSet that hold a font name
FontSlots == {FontSlot(t) : t \in FontType \ {"Default"}}

\* every font slot of the set is None
AllUnset(set) == \A f \in FontSlots : set[f] = None

\* the step is a call of change_value(arg, type), with fontlast' its record
ChangeValueCalled == fontlast'.op = "change_value"

\* C36: change_value returns an error and leaves the set as it was whenever
\* the set with the slot changed as asked would have every font slot unset
C36_RefusesEmptying ==
    [][(/\ ChangeValueCalled
        /\ fontlast'.type # "Default"
        /\ AllUnset([fonts EXCEPT ![FontSlot(fontlast'.type)] = fontlast'.arg]))
          => (fontlast'.ret[1] = "Err" /\ fonts' = fonts)]_vars

\* what does hold: change_value on a set equal to FontSet::default() returns
\* an error and leaves the set as it was
C36_RefusesOnDefault ==
    [][(ChangeValueCalled /\ fonts = FontSet_default)
          => (fontlast'.ret[1] = "Err" /\ fonts' = fonts)]_vars

\* C37: change_value(value, T) leaves the hint and every slot but the one T
\* names as they were, sets that slot to value when it returns Ok, and changes
\* nothing when it returns an error
C37_OnlyNamedSlot ==
    [][ChangeValueCalled =>
          /\ fonts'.hint = fonts.hint
          /\ \A f \in FontSlots :
                (fontlast'.type = "Default" \/ f # FontSlot(fontlast'.type))
                    => fonts'[f] = fonts[f]
          /\ (fontlast'.ret[1] = "Ok")
                => fonts'[FontSlot(fontlast'.type)] = fontlast'.arg
          /\ (fontlast'.ret[1] = "Err") => fonts' = fonts]_vars

\* what does hold: the same for the seven slot types other than CsTheme, and
\* for every type that a call that returns an error changes nothing
C37_OnlyNamedSlotButCsTheme ==
    [][ChangeValueCalled =>
          /\ fonts'.hint = fonts.hint
          /\ (fontlast'.ret[1] = "Err") => fonts' = fonts
          /\ fontlast'.type # "CsTheme" =>
                /\ \A f \in FontSlots :
                      (fontlast'.type = "Default" \/ f # FontSlot(fontlast'.type))
                          => fonts'[f] = fonts[f]
                /\ (fontlast'.ret[1] = "Ok")
                      => fonts'[FontSlot(fontlast'.type)] = fontlast'.arg]_vars

\* the hyperlinks of a document
HyperlinksOfDocument(d) ==
    UNION {{d.paragraphs[i].children[j][2] :
                j \in {k \in 1..Len(d.paragraphs[i].children) :
                          d.paragraphs[i].children[k][1] = "Hyperlink"}} :
           i \in 1..Len(d.paragraphs)}

\* C38: the Document that load returns has, for every hyperlink id in it, a
\* target in its relationship registry, and save of that Document writes a
\* relationships part that binds the id (after save and load of a built
\* document: to the target it had)
C38_LoadedRegistry ==
    (phase = "done" /\ via \in {"save", "load"} /\ result.ok) =>
        \A h \in HyperlinksOfDocument(result.document) :
            LET rm == result.document.relationship_manager
            IN  /\ h.id \in DOMAIN rm.links
                /\ \A doc_rels \in save_doc_rels(result.document) :
                      <<h.id, rm.links[h.id]>>
                          \in save(result.document, doc_rels, 0, NoFile)
                                 .parts["word/_rels/document.xml.rels"].text
                /\ (via = "save" /\ h.id \in DOMAIN doc.relationship_manager.links)
                      => rm.links[h.id] = doc.relationship_manager.links[h.id]

\* what does hold: the registry of the Document that load returns is the new,
\* empty one, and save of that Document writes no relationship
C38_LoadedRegistryEmpty ==
    (phase = "done" /\ via \in {"save", "load"} /\ result.ok) =>
        /\ result.document.relationship_manager = RelationshipManager_new
        /\ \A doc_rels \in save_doc_rels(result.document) :
              save(result.document, doc_rels, 0, NoFile)
                  .parts["word/_rels/document.xml.rels"].text = {}

\* the numbers of the ids of the form rId<number> in a registry
SeededNumbers(rm) ==
    {Unwrap(ParseU32(SubSeq(id, 4, Len(id)))) :
        id \in {k \in DOMAIN rm.links : FollowsRidPattern(k)}}

\* what C39 says of the last call, a generate_rid or an add_relationship: the
\* counter is not smaller than before, and an id generate_rid handed out has a
\* number above that of every id the registry held
CounterNeverBack ==
    (IsGenerate(last) \/ last.op = "add_relationship") =>
        /\ ~U32Lt(regs[last.reg].counter, pre[last.reg].counter)
        /\ (IsGenerate(last) /\ last.ret # Panic) =>
              /\ last.ret = FormatRid(regs[last.reg].counter)
              /\ \A n \in SeededNumbers(pre[last.reg]) :
                    U32Lt(n, regs[last.reg].counter)

\* C39: the u32 counter of a registry never decreases under generate_rid and
\* add_relationship, also after add_relationship has set it to 4294967295:
\* generate_rid then neither wraps to a smaller number nor hands out an id at
\* or below one already there
C39_CounterMonotone == CounterNeverBack

\* what does hold: the same of every call on a registry that does not hold
\* the id rId4294967295, and of every call in a build with overflow checks,
\* where generate_rid at 4294967295 panics
C39_MonotoneBelowMax ==
    (/\ IsGenerate(last) \/ last.op = "add_relationship"
     /\ overflow_checks \/ U32MAX \notin SeededNumbers(pre[last.reg]))
        => CounterNeverBack

\* the elements of that name among the tokens
ElementsNamed(tokens, name) ==
    {tokens[k] : k \in {j \in 1..Len(tokens) : tokens[j].name = name}}

\* C40: a paragraph whose outline_level is Some(n) is written with n under
\* w:outlineLvl, the element the decoder reads as outline level, and not
\* under the element of textbox tight wrap
C40_OutlineLevelElement ==
    \A i \in 1..Len(doc.paragraphs) :
        LET p == doc.paragraphs[i].properties
            w == write_paragraph_properties(p)
        IN  IsSome(p.outline_level) =>
                /\ ElementsNamed(w, "w:outlineLvl")
                      = {EmptyTag("w:outlineLvl",
                                  <<with_attribute(XmlAttr.Val,
                                                   U8Digits(Unwrap(p.outline_level)))>>)}
                /\ \A e \in ElementsNamed(w, XmlWElement.TextboxTightWrap) :
                      /\ IsSome(p.textbox_tight_wrap)
                      /\ e.attrs = <<with_attribute(XmlAttr.Val,
                                        ParagraphTBoxTightWrapValues_to_string(
                                            Unwrap(p.textbox_tight_wrap).val))>>

\* what does hold: the outline level is written under w:textboxTightWrap, and
\* no element w:outlineLvl is written
C40_UnderTightWrap ==
    \A i \in 1..Len(doc.paragraphs) :
        LET p == doc.paragraphs[i].properties
            w == write_paragraph_properties(p)
        IN  IsSome(p.outline_level) =>
                /\ ElementsNamed(w, "w:outlineLvl") = {}
                /\ EmptyTag(XmlWElement.TextboxTightWrap,
                            <<with_attribute(XmlAttr.Val,
                                             U8Digits(Unwrap(p.outline_level)))>>)
                      \in ElementsNamed(w, XmlWElement.TextboxTightWrap)

(***************************************************************************)
(* Specifications                                                          *)
(***************************************************************************)
RelsNext ==
    \/ \E r \in RegIds, t \in Targets : GenerateRid(r, t)
    \/ \E r \in RegIds, t \in Targets : HyperlinkNew(r, t)
    \/ \E r \in RegIds, id \in IdInputs, t \in Targets : AddRelationship(r, id, t)
    \/ \E r \in RegIds : Clear(r)

\* callers of the relationship registry
InitRels ==
    RelsInit /\ HexInit /\ IndIdle /\ FontIdle /\ ConcIdle /\ CodecIdle /\ WireIdle

SpecRels == InitRels /\ [][RelsNext]_vars

HexNext ==
    \/ \E c \in ColorInputs : HexNew(c)
    \/ \E c \in ColorInputs : HexChangeValue(c)

\* callers of HexColor
InitHex ==
    RelsIdle /\ HexInit /\ IndIdle /\ FontIdle /\ ConcIdle /\ CodecIdle /\ WireIdle

SpecHex == InitHex /\ [][HexNext]_vars

IndNext ==
    \/ \E l \in I32Inputs, lc \in I32Inputs, r \in I32Inputs, rc \in I32Inputs,
          f \in I32Inputs, fc \in I32Inputs, h \in I32Inputs, hc \in I32Inputs :
          IndNew(l, lc, r, rc, f, fc, h, hc)
    \/ \E v \in I32Inputs : IndChangeLeft(v)
    \/ \E v \in I32Inputs : IndChangeLeftChars(v)
    \/ \E v \in I32Inputs : IndChangeRight(v)
    \/ \E v \in I32Inputs : IndChangeRightChars(v)
    \/ \E v \in I32Inputs : IndChangeFirstLine(v)
    \/ \E v \in I32Inputs : IndChangeFirstLineChars(v)
    \/ \E v \in I32Inputs : IndChangeHanging(v)
    \/ \E v \in I32Inputs : IndChangeHangingChars(v)

\* callers of ParagraphIndentation
InitInd ==
    RelsIdle /\ HexInit /\ IndInit /\ FontIdle /\ ConcIdle /\ CodecIdle /\ WireIdle

SpecInd == InitInd /\ [][IndNext]_vars

FontNext ==
    \/ \E v \in FontNames, t \in FontType : FontNew(v, t)
    \/ FontValue
    \/ FontGetHint
    \/ \E t \in FontType : FontSetHintValue(t)
    \/ \E v \in {None} \cup {Some(n) : n \in FontNames}, t \in FontType :
          FontChangeValue(v, t)

\* callers of FontSet
InitFont ==
    RelsIdle /\ HexInit /\ IndIdle /\ FontInit /\ ConcIdle /\ CodecIdle /\ WireIdle

SpecFont == InitFont /\ [][FontNext]_vars

ConcNext ==
    \/ \E c \in Callers, t \in Targets : CallGenerateRid(c, t)
    \/ \E c \in Callers : StepCounter(c)
    \/ \E c \in Callers : StepFormat(c)
    \/ \E c \in Callers : StepInsert(c)

\* callers that share one registry
InitConc ==
    RelsIdle /\ HexInit /\ IndIdle /\ FontIdle /\ ConcInit /\ CodecIdle /\ WireIdle

SpecConc == InitConc /\ [][ConcNext]_vars

CodecNext ==
    \/ Parse
    \/ Generate
    \/ Save
    \/ Load
    \/ HandleOpenTag
    \/ HandleEmptyTag
    \/ HandleText
    \/ HandleCloseTag
    \/ HandleEof

\* a caller builds a document and round-trips it through the codec or an archive
InitCodec ==
    RelsIdle /\ HexInit /\ IndIdle /\ FontIdle /\ ConcIdle /\ CodecInit /\ WireIdle

SpecCodec == InitCodec /\ [][CodecNext]_vars

WireNext ==
    \/ \E E \in Enums : \E v \in E.variants : WireToString(E, v)
    \/ \E E \in Enums : WireFromPrinted(E)
    \/ \E E \in Enums : WireFromUnknown(E)

\* callers that print and parse the enums
InitWire ==
    RelsIdle /\ HexInit /\ IndIdle /\ FontIdle /\ ConcIdle /\ CodecIdle /\ WireInit

SpecWire == InitWire /\ [][WireNext]_vars
====
